---- MODULE Spec2Model ----
(***************************************************************************)
(* Model of the play page (src/src/app/play/page.tsx): the source          *)
(* selector preferBestSource, the manifest ad filter filterAdsFromM3U8 and *)
(* the life cycle of the player instance (player init effect, initPlayer,  *)
(* cleanupPlayer, the ad-filter toggle), the HLS decoder (loader choice,   *)
(* manifest interceptor, error handler) and the handlers of the playback   *)
(* session (can-play resume, skip intro/outro, play-progress saving, wake  *)
(* lock).                                                                  *)
(***************************************************************************)
EXTENDS Integers, Sequences, FiniteSets, TLC

\* ------------------------------------------------------------------------
\* Bounds
\* ------------------------------------------------------------------------
MaxSources == 3
MaxLines == 3
MaxInstances == 3
MaxPendingInits == 2
MaxFatalRun == 3
MaxClockTicks == 4
MaxSentinels == 2
MaxLongTicks == 9
MaxFrames == 5
MaxDmMinutes == 2
MaxDmJumps == 1
MaxDanmakuLoads == 3

VARIABLES
  \* --- preferBestSource ---
  sources,               \* the argument: sequence of candidates
  selPc,                 \* "idle" | "awaitBatch" | "done"
  start,                 \* loop variable of the batch loop (0-based)
  batchResults,          \* results of the batch being awaited, by candidate index
  pending,               \* indices whose getVideoResolutionFromM3u8 call is outstanding
  allResults,            \* the accumulated results
  precomputedVideoInfo,  \* the published probe-result map (React state)
  setInfoCalls,          \* number of setPrecomputedVideoInfo calls
  probesStarted,         \* indices for which a probe request was issued
  settled,               \* indices whose map callback has settled
  selReturn,             \* what the call returned
  \* --- filterAdsFromM3U8 ---
  customAdFilterCode,    \* customAdFilterCodeRef.current (kind of code)
  fType,                 \* argument type
  fContent,              \* argument m3u8Content
  fPc,                   \* "idle" | "once" | "twice"
  fOut,                  \* result of filterAdsFromM3U8(type, m3u8Content)
  fOut2,                 \* result of the default rule applied to its own output
  \* --- player life cycle ---
  videoUrl, loading, blockAdEnabled, isWebkit,
  artPlayerRef,          \* 0 = null, else the id of the stored instance
  alive,                 \* ids of Artplayer instances created and not destroyed
  created,               \* number of instances created so far
  pendingInits,          \* initPlayer calls suspended at the dynamic imports
  effectDue,             \* a dependency of the player init effect changed
  switched,              \* number of in-place switches performed
  \* --- HLS decoder ---
  blockAdEnabledRef,     \* blockAdEnabledRef.current
  hls,                   \* video.hls: the decoder of the stored player
  lastLoad,              \* the last response a loader handed to hls.js
  error,                 \* the page's error state (setError), "" = null
  fatalRun,              \* fatal network errors in a row without a rendered frame
  \* --- media element of the stored player ---
  currentTime, duration, paused,
  lastSeeks,             \* the seeks issued by the last can-play / skip handler run
  \* --- playback session ---
  resumeTimeRef,         \* resumeTimeRef.current, Null or seconds
  seeksSinceSet,         \* resume seeks applied since the target was last set
  skipConfigRef,         \* skipConfigRef.current
  lastSkipCheckRef,      \* lastSkipCheckRef.current (ms)
  now,                   \* Date.now() (ms)
  currentEpisodeIndex,   \* React state
  currentEpisodeIndexRef,\* currentEpisodeIndexRef.current
  episodesLen,           \* detailRef.current.episodes.length
  metaReady,             \* source, id, title and source_name refs are all set
  storageType,           \* process.env.NEXT_PUBLIC_STORAGE_TYPE
  playRecord,            \* the record last handed to savePlayRecord
  savePending,           \* some savePlayRecord call has not settled
  lastSaveTimeRef,       \* lastSaveTimeRef.current (ms)
  lastTrigger,           \* the last event that invoked saveCurrentPlayProgress
  wakeLockRef,           \* wakeLockRef.current, 0 = null, else a sentinel id
  wlHeld,                \* sentinels granted and not released
  wlGranted,             \* number of sentinels granted so far
  wlRequesting,          \* some navigator.wakeLock.request call has not settled
  wlReleasing,           \* some sentinel.release() await has not resumed
  \* --- teardown ---
  cleanupLog,            \* what the last cleanupPlayer call met and how it ended
  teardownLog,           \* the last path that ended the stored player's session
  \* --- skip configuration and its persistence ---
  skipConfig,            \* the skipConfig state
  currentSourceRef,      \* currentSourceRef.current, "" when not set
  currentIdRef,          \* currentIdRef.current, "" when not set
  skipStore,             \* the persisted skip configurations, by (source, id)
  skipCall,              \* the last persistence call of handleSkipConfigChange
  \* --- fetchAdFilterCode ---
  adPc,                  \* "idle" | "version" | "full" | "done"
  cachedCode,            \* localStorage custom_ad_filter_code_cache, "" = no item
  cachedVersion,         \* localStorage custom_ad_filter_version_cache, "" = no item
  serverVersion,         \* the version of the version response, 0 before it
  adOutcome,             \* how the last fetchAdFilterCode step ended
  \* --- initAll ---
  recordsLoad,           \* the getAllPlayRecords call of initAll: "pending" | "failed" | "absent" | "found"
  \* --- episode address and source change ---
  detail,                \* the detail state: the name of the active source, "" = null
  sourceChange,          \* the handleSourceChange call suspended at its awaits
  \* --- time-update flushes ---
  timeUpdateFlushAt,     \* Date.now() of the last flush the time-update listener made
  \* --- Anime4K frame capture ---
  isFirefox,             \* the user agent is Firefox
  anime4kRef,            \* anime4kRef.current
  a4kInit,               \* the initAnime4K call suspended at its awaits
  frames,                \* the scheduled requestAnimationFrame callbacks
  rafIssued,             \* number of requestAnimationFrame ids handed out
  a4kCleaned,            \* the capture loops whose record cleanupAnime4K has cleaned
  \* --- POST /api/admin/openlist ---
  olConfig,              \* the stored adminConfig.OpenListConfig
  olReq,                 \* the request being handled or last handled, and its response
  \* --- danmaku cache (IndexedDB) ---
  dmWindow,              \* typeof window !== 'undefined'
  dmEnv,                 \* process.env.NEXT_PUBLIC_DANMAKU_CACHE_EXPIRE_MINUTES
  dmStore,               \* the object store 'danmaku', by episodeId
  dmSave,                \* the saveDanmakuToCache call in flight or last settled
  dmGet,                 \* the getDanmakuFromCache call in flight or last settled
  \* --- resume target ---
  resumeFor,             \* the episode index resumeTimeRef.current was taken from, Null = none
  \* --- the stream of the stored player, automatic episode advance ---
  playerUrl,             \* the address the stored player was last given (art.url)
  endedTimers,           \* the setTimeout callbacks of video:ended not yet run, by target index
  \* --- comment track of the selected episode ---
  currentDanmakuSelection, \* episodeId of the comment-source binding, Null without one
  danmakuTrack,          \* episodeId whose comments the plugin shows, 0 when cleared
  danmakuLoads,          \* the getDanmakuById calls of loadDanmaku not yet settled
  danmakuLoadSeq,        \* number of loadDanmaku calls made
  danmakuEffectIndex     \* currentEpisodeIndex at the last run of the episode-change effect

selVars == <<sources, selPc, start, batchResults, pending, allResults,
             precomputedVideoInfo, setInfoCalls, probesStarted, settled, selReturn>>
filterVars == <<customAdFilterCode, fType, fContent, fPc, fOut, fOut2>>
playerVars == <<videoUrl, loading, blockAdEnabled, isWebkit, artPlayerRef, alive, created,
                pendingInits, effectDue, switched>>
hlsVars == <<blockAdEnabledRef, hls, lastLoad, error, fatalRun>>
mediaVars == <<currentTime, duration, paused, lastSeeks>>
resumeVars == <<resumeTimeRef, seeksSinceSet>>
skipVars == <<skipConfigRef, lastSkipCheckRef>>
episodeVars == <<currentEpisodeIndex, currentEpisodeIndexRef, episodesLen>>
progressVars == <<metaReady, storageType, playRecord, savePending, lastSaveTimeRef, lastTrigger>>
wakeVars == <<wakeLockRef, wlHeld, wlGranted, wlRequesting, wlReleasing>>
teardownVars == <<cleanupLog, teardownLog>>
skipStoreVars == <<skipConfig, currentSourceRef, currentIdRef, skipStore, skipCall>>
adSyncVars == <<adPc, cachedCode, cachedVersion, serverVersion, adOutcome>>
initVars == <<recordsLoad>>
sourceVars == <<detail, sourceChange>>
flushVars == <<timeUpdateFlushAt>>
a4kVars == <<isFirefox, anime4kRef, a4kInit, frames, rafIssued, a4kCleaned>>
olVars == <<olConfig, olReq>>
dmVars == <<dmWindow, dmEnv, dmStore, dmSave, dmGet>>
resumeForVars == <<resumeFor>>
streamVars == <<playerUrl>>
autoNextVars == <<endedTimers>>
commentVars == <<currentDanmakuSelection, danmakuTrack, danmakuLoads, danmakuLoadSeq,
                 danmakuEffectIndex>>
tailVars == <<dmVars, resumeForVars, streamVars, autoNextVars, commentVars>>
laterButResumeFor == <<a4kVars, olVars, dmVars, streamVars, autoNextVars, commentVars>>
laterButStream == <<a4kVars, olVars, dmVars, resumeForVars, autoNextVars, commentVars>>
laterButComment == <<a4kVars, olVars, dmVars, resumeForVars, streamVars, autoNextVars>>
laterButAutoNext == <<a4kVars, olVars, dmVars, resumeForVars, streamVars, commentVars>>
laterVars == <<a4kVars, olVars, tailVars>>
earlierVars == <<teardownVars, skipStoreVars, adSyncVars, initVars, sourceVars, flushVars>>
pageButResumeFor == <<earlierVars, laterButResumeFor>>
otherThanA4k == <<skipStoreVars, adSyncVars, initVars, sourceVars, flushVars, olVars,
                  tailVars>>
otherThanOl == <<earlierVars, a4kVars, tailVars>>
otherThanDm == <<earlierVars, a4kVars, olVars, resumeForVars, streamVars, autoNextVars,
                 commentVars>>
extraVars == <<skipStoreVars, adSyncVars, initVars, sourceVars, flushVars, laterVars>>
otherThanSkipStore == <<teardownVars, adSyncVars, initVars, sourceVars, flushVars, laterVars>>
otherThanAdSync == <<teardownVars, skipStoreVars, initVars, sourceVars, flushVars, laterVars>>
otherThanInit == <<teardownVars, skipStoreVars, adSyncVars, sourceVars, flushVars, laterVars>>
otherThanSource == <<teardownVars, skipStoreVars, adSyncVars, initVars, flushVars, laterVars>>
otherThanFlush == <<teardownVars, skipStoreVars, adSyncVars, initVars, sourceVars, laterVars>>
pageVars == <<teardownVars, extraVars>>
sessionVars == <<hlsVars, mediaVars, resumeVars, skipVars, now, episodeVars,
                 progressVars, wakeVars, pageVars>>
vars == <<selVars, filterVars, playerVars, sessionVars>>

\* ------------------------------------------------------------------------
\* preferBestSource
\* ------------------------------------------------------------------------
Min2(a, b) == IF a < b THEN a ELSE b

SiteNames == <<"siteA", "siteB", "siteC", "siteD", "siteE", "siteF">>
EpisodeCounts == {0, 2}

\* candidate lists: distinct (source, id) identities, any episode counts
CandidateLists ==
  UNION { { [i \in 1..n |-> [source |-> SiteNames[i], id |-> i, episodes |-> e[i]]]
            : e \in [1..n -> EpisodeCounts] } : n \in 1..MaxSources }

Qualities == {"1080p", "720p"}
\* loadSpeed strings: "unknown" stands for the literal unknown marker, the
\* others are <<tenths, unit>>, e.g. <<20, "MB/s">> for "2.0 MB/s" and
\* <<17408, "KB/s">> for "1740.8 KB/s", which is 85% of 2.0 MB/s
LoadSpeeds == { <<0, "unknown">>, <<20, "MB/s">>, <<17408, "KB/s">> }
PingTimes == {40, 90}
TestResults == [quality : Qualities, loadSpeed : LoadSpeeds, pingTime : PingTimes]

NullResult == [isNull |-> TRUE]
Success(src, tr) == [isNull |-> FALSE, source |-> src, testResult |-> tr]

SourceKey(src) == <<src.source, "-", src.id>>

\* a single batch holding every candidate
BatchSizeAll(n) == n
BatchSize(n) == (n + 1) \div 2

\* the early return never taken
IsSingleNever(s) == FALSE
IsSingle(s) == Len(s) = 1


\* indices (1-based) of the batch that begins at loop value st
BatchIndices(st, n) == (st + 1) .. Min2(st + BatchSize(n), n)

\* sources.slice / Promise.all keep the input order: the batch results are
\* appended by ascending candidate index
RECURSIVE BatchSeq(_, _, _)
BatchSeq(res, lo, hi) ==
  IF lo > hi THEN <<>> ELSE <<res[lo]>> \o BatchSeq(res, lo + 1, hi)

\* push order that follows the candidates backwards
RECURSIVE BatchSeqReversed(_, _, _)
BatchSeqReversed(res, lo, hi) ==
  IF lo > hi THEN <<>> ELSE <<res[hi]>> \o BatchSeqReversed(res, lo, hi - 1)

PushBatchReversed(all, res, lo, hi) == all \o BatchSeqReversed(res, lo, hi)
PushBatch(all, res, lo, hi) == all \o BatchSeq(res, lo, hi)

\* allResults.forEach((result, index) => ... newVideoInfoMap.set(sourceKey, ...))
\* a later set of the same key overwrites an earlier one
RECURSIVE BuildVideoInfoMap(_, _, _)
BuildVideoInfoMap(srcs, all, k) ==
  IF k = 0 THEN << >>
  ELSE LET prev == BuildVideoInfoMap(srcs, all, k - 1)
           key  == SourceKey(srcs[k])
       IN IF all[k].isNull THEN prev
          ELSE [x \in (DOMAIN prev) \cup {key} |->
                  IF x = key THEN all[k].testResult ELSE prev[x]]

NewVideoInfoMap(srcs, all) == BuildVideoInfoMap(srcs, all, Len(all))

\* allResults.filter(Boolean)
SuccessfulResults(all) == SelectSeq(all, LAMBDA r : ~r.isNull)

\* speed in tenths of KB/s; 0 for the unknown markers
ParseSpeed(loadSpeed) ==
  IF loadSpeed[2] = "MB/s" THEN loadSpeed[1] * 1024
  ELSE IF loadSpeed[2] = "KB/s" THEN loadSpeed[1]
  ELSE 0

SeqRange(s) == { s[i] : i \in DOMAIN s }
SetMax(S) == CHOOSE x \in S : \A y \in S : y <= x
SetMin(S) == CHOOSE x \in S : \A y \in S : x <= y

ValidSpeeds(succ) == { v \in { ParseSpeed(r.testResult.loadSpeed) : r \in SeqRange(succ) } : v > 0 }
DefaultMaxSpeed == 1024 * 10    \* 1024 KB/s, in tenths
MaxSpeedOf(succ) == IF ValidSpeeds(succ) # {} THEN SetMax(ValidSpeeds(succ)) ELSE DefaultMaxSpeed

ValidPings(succ) == { p \in { r.testResult.pingTime : r \in SeqRange(succ) } : p > 0 }
DefaultMinPing == 50
DefaultMaxPing == 1000
MinPingOf(succ) == IF ValidPings(succ) # {} THEN SetMin(ValidPings(succ)) ELSE DefaultMinPing
MaxPingOf(succ) == IF ValidPings(succ) # {} THEN SetMax(ValidPings(succ)) ELSE DefaultMaxPing

QualityScore(q) ==
  CASE q = "4K" -> 100 [] q = "2K" -> 85 [] q = "1080p" -> 75
    [] q = "720p" -> 60 [] q = "480p" -> 40 [] q = "SD" -> 20 [] OTHER -> 0

\* sub-scores as fractions <<numerator, denominator>>, denominator > 0
SpeedScore(tr, maxSpeed) ==
  IF tr.loadSpeed[2] \notin {"MB/s", "KB/s"} THEN <<30, 1>>
  ELSE LET v == ParseSpeed(tr.loadSpeed)
       IN IF v >= maxSpeed THEN <<100, 1>> ELSE <<100 * v, maxSpeed>>

PingScore(tr, minPing, maxPing) ==
  IF tr.pingTime <= 0 THEN <<0, 1>>
  ELSE IF maxPing = minPing THEN <<100, 1>>
  ELSE IF tr.pingTime >= maxPing THEN <<0, 1>>
  ELSE IF tr.pingTime <= minPing THEN <<100, 1>>
  ELSE <<100 * (maxPing - tr.pingTime), maxPing - minPing>>

\* a scorer that leaves the resolution out
CalculateSourceScoreNoQuality(tr, maxSpeed, minPing, maxPing) ==
  LET s == SpeedScore(tr, maxSpeed)
      p == PingScore(tr, minPing, maxPing)
      d == s[2] * p[2]
      num == 40 * s[1] * p[2] + 20 * p[1] * s[2]
  IN (2 * num + d) \div (2 * d)

\* calculateSourceScore, in hundredths: Math.round(score * 100), exact arithmetic
CalculateSourceScore(tr, maxSpeed, minPing, maxPing) ==
  LET s == SpeedScore(tr, maxSpeed)
      p == PingScore(tr, minPing, maxPing)
      d == s[2] * p[2]
      num == 40 * QualityScore(tr.quality) * d + 40 * s[1] * p[2] + 20 * p[1] * s[2]
  IN (2 * num + d) \div (2 * d)

ResultsWithScore(succ) ==
  [i \in DOMAIN succ |->
     [source |-> succ[i].source, testResult |-> succ[i].testResult,
      score |-> CalculateSourceScore(succ[i].testResult, MaxSpeedOf(succ),
                                     MinPingOf(succ), MaxPingOf(succ))]]

\* the comparator (a, b) => b.score - a.score : positive means a goes after b
CompareAscending(a, b) == a.score - b.score
Compare(a, b) == b.score - a.score

\* stable insertion of x into the sorted sequence s (Array.prototype.sort is stable)
RECURSIVE InsertSorted(_, _)
InsertSorted(s, x) ==
  IF s = <<>> THEN <<x>>
  ELSE IF Compare(s[Len(s)], x) > 0
       THEN InsertSorted(SubSeq(s, 1, Len(s) - 1), x) \o <<s[Len(s)]>>
       ELSE s \o <<x>>

RECURSIVE SortByScore(_)
SortByScore(s) ==
  IF s = <<>> THEN <<>>
  ELSE InsertSorted(SortByScore(SubSeq(s, 1, Len(s) - 1)), s[Len(s)])

Returned(v) == [status |-> "returned", value |-> v]
Threw == [status |-> "threw"]
NotReturned == [status |-> "none"]

\* the tail of preferBestSource taken without the all-failed check:
\* resultsWithScore[0].source of an empty array raises
PreferTailUnchecked(srcs, all) ==
  LET succ == SuccessfulResults(all)
  IN IF Len(succ) = 0 THEN Threw
     ELSE Returned(SortByScore(ResultsWithScore(succ))[1].source)

\* lines 517-572: what preferBestSource returns once all results are in
PreferTail(srcs, all) ==
  LET succ == SuccessfulResults(all)
  IN IF Len(succ) = 0 THEN Returned(srcs[1])
     ELSE Returned(SortByScore(ResultsWithScore(succ))[1].source)


InitSel ==
  /\ sources \in CandidateLists
  /\ selPc = "idle"
  /\ start = 0
  /\ batchResults = << >>
  /\ pending = {}
  /\ allResults = <<>>
  /\ precomputedVideoInfo = << >>
  /\ setInfoCalls = 0
  /\ probesStarted = {}
  /\ settled = {}
  /\ selReturn = NotReturned

\* batchSources.map(async (source) => ...) up to the first await of each callback:
\* a candidate without episodes settles with null at once, the others issue
\* their getVideoResolutionFromM3u8 request
StartBatch(st) ==
  LET idx == BatchIndices(st, Len(sources))
      probing == { i \in idx : sources[i].episodes > 0 }
  IN /\ start' = st
     /\ batchResults' = [i \in idx |-> NullResult]
     /\ pending' = probing
     /\ probesStarted' = probesStarted \cup probing
     /\ settled' = settled \cup (idx \ probing)
     /\ selPc' = "awaitBatch"

\* preferBestSource(sources) is called
CallPreferBestSource ==
  /\ selPc = "idle"
  /\ IF IsSingle(sources)
     THEN /\ selReturn' = Returned(sources[1])
          /\ selPc' = "done"
          /\ UNCHANGED <<start, batchResults, pending, allResults, precomputedVideoInfo,
                         setInfoCalls, probesStarted, settled>>
     ELSE /\ StartBatch(0)
          /\ UNCHANGED <<allResults, precomputedVideoInfo, setInfoCalls, selReturn>>
  /\ UNCHANGED sources
  /\ UNCHANGED <<filterVars, playerVars, sessionVars>>

\* one getVideoResolutionFromM3u8 call resolves with a measurement
ProbeSucceeds(i, tr) ==
  /\ selPc = "awaitBatch"
  /\ i \in pending
  /\ pending' = pending \ {i}
  /\ settled' = settled \cup {i}
  /\ batchResults' = [batchResults EXCEPT ![i] = Success(sources[i], tr)]
  /\ UNCHANGED <<sources, selPc, start, allResults, precomputedVideoInfo, setInfoCalls,
                 probesStarted, selReturn>>
  /\ UNCHANGED <<filterVars, playerVars, sessionVars>>

\* one getVideoResolutionFromM3u8 call rejects: the catch returns null
ProbeFails(i) ==
  /\ selPc = "awaitBatch"
  /\ i \in pending
  /\ pending' = pending \ {i}
  /\ settled' = settled \cup {i}
  /\ batchResults' = [batchResults EXCEPT ![i] = NullResult]
  /\ UNCHANGED <<sources, selPc, start, allResults, precomputedVideoInfo, setInfoCalls,
                 probesStarted, selReturn>>
  /\ UNCHANGED <<filterVars, playerVars, sessionVars>>

\* Promise.all of the batch resolves and the loop goes on to the next batch
NextBatch ==
  LET n == Len(sources)
      idx == BatchIndices(start, n)
      lo == start + 1
      hi == Min2(start + BatchSize(n), n)
  IN /\ selPc = "awaitBatch"
     /\ pending = {}
     /\ start + BatchSize(n) < n
     /\ allResults' = PushBatch(allResults, batchResults, lo, hi)
     /\ StartBatch(start + BatchSize(n))
     /\ UNCHANGED <<sources, precomputedVideoInfo, setInfoCalls, selReturn>>
     /\ UNCHANGED <<filterVars, playerVars, sessionVars>>

\* Promise.all of the last batch resolves: publish the map, score, return
FinishSelection ==
  LET n == Len(sources)
      lo == start + 1
      hi == Min2(start + BatchSize(n), n)
      all == PushBatch(allResults, batchResults, lo, hi)
  IN /\ selPc = "awaitBatch"
     /\ pending = {}
     /\ ~(start + BatchSize(n) < n)
     /\ allResults' = all
     /\ precomputedVideoInfo' = NewVideoInfoMap(sources, all)
     /\ setInfoCalls' = setInfoCalls + 1
     /\ selReturn' = PreferTail(sources, all)
     /\ selPc' = "done"
     /\ UNCHANGED <<sources, start, batchResults, pending, probesStarted, settled>>
     /\ UNCHANGED <<filterVars, playerVars, sessionVars>>

NextSel ==
  \/ CallPreferBestSource
  \/ \E i \in 1..MaxSources, tr \in TestResults : ProbeSucceeds(i, tr)
  \/ \E i \in 1..MaxSources : ProbeFails(i)
  \/ NextBatch
  \/ FinishSelection


\* ------------------------------------------------------------------------
\* filterAdsFromM3U8
\* ------------------------------------------------------------------------
\* A manifest text is the non-empty sequence of its lines (what split('\n')
\* gives); a line is a sequence of fragments and includes(p) asks for the
\* fragment p.  The empty string is the text of one empty line.
DISCONTINUITY == "#EXT-X-DISCONTINUITY"
FillerTokens == { "EXTINF:5.640000", "EXTINF:2.960000", "EXTINF:3.480000",
                  "EXTINF:4.000000", "EXTINF:0.960000", "EXTINF:10.000000",
                  "EXTINF:1.266667" }

Includes(line, p) == \E k \in DOMAIN line : line[k] = p
HasDiscontinuity(line) == Includes(line, DISCONTINUITY)
HasFiller(line) == \E t \in FillerTokens : Includes(line, t)

EmptyText == << <<>> >>
Split(text) == text
Join(lines) == IF lines = <<>> THEN EmptyText ELSE lines

\* sample lines the inputs are drawn from
SampleLines ==
  { <<>>,
    <<"seg.ts">>,
    <<"#", "EXTINF:6.000000", ",">>,
    <<"#", "EXTINF:5.640000", ",">>,
    <<"#", "EXTINF:1.266667", ",">>,
    <<DISCONTINUITY>>,
    <<DISCONTINUITY, "EXTINF:4.000000">> }
Manifests == UNION { [1..n -> SampleLines] : n \in 1..MaxLines }
ProviderTypes == {"ruyi", "other"}

\* loop body that pushes the filler line itself and only skips its follower
RECURSIVE FilterLoopKeepsMarker(_, _, _, _)
FilterLoopKeepsMarker(type, lines, i, nextdelete) ==
  IF i > Len(lines) THEN <<>>
  ELSE IF nextdelete THEN FilterLoopKeepsMarker(type, lines, i + 1, FALSE)
  ELSE IF ~HasDiscontinuity(lines[i])
       THEN IF type = "ruyi" /\ HasFiller(lines[i])
            THEN <<lines[i]>> \o FilterLoopKeepsMarker(type, lines, i + 1, TRUE)
            ELSE <<lines[i]>> \o FilterLoopKeepsMarker(type, lines, i + 1, FALSE)
       ELSE FilterLoopKeepsMarker(type, lines, i + 1, FALSE)

\* loop body that never sets nextdelete
RECURSIVE FilterLoopNoLookahead(_, _, _, _)
FilterLoopNoLookahead(type, lines, i, nextdelete) ==
  IF i > Len(lines) THEN <<>>
  ELSE IF ~HasDiscontinuity(lines[i])
       THEN IF type = "ruyi" /\ HasFiller(lines[i])
            THEN FilterLoopNoLookahead(type, lines, i + 1, FALSE)
            ELSE <<lines[i]>> \o FilterLoopNoLookahead(type, lines, i + 1, FALSE)
       ELSE FilterLoopNoLookahead(type, lines, i + 1, FALSE)

\* the for loop of the default rule, from index i with the flag nextdelete;
\* the value is what it pushes onto filteredLines
RECURSIVE FilterLoop(_, _, _, _)
FilterLoop(type, lines, i, nextdelete) ==
  IF i > Len(lines) THEN <<>>
  ELSE IF nextdelete THEN FilterLoop(type, lines, i + 1, FALSE)
  ELSE IF ~HasDiscontinuity(lines[i])
       THEN IF type = "ruyi" /\ HasFiller(lines[i])
            THEN FilterLoop(type, lines, i + 1, TRUE)
            ELSE <<lines[i]>> \o FilterLoop(type, lines, i + 1, FALSE)
       ELSE FilterLoop(type, lines, i + 1, FALSE)

\* the default rule
DefaultFilter(type, content) ==
  IF content = EmptyText THEN EmptyText
  ELSE Join(FilterLoop(type, Split(content), 1, FALSE))

\* kinds of override code in customAdFilterCodeRef.current
CustomCodes == {"", "  ", "syntaxError", "throws", "returnsNonText", "returnsText"}
Trim(code) == IF code = "  " THEN "" ELSE code

Text(t) == [kind |-> "text", text |-> t]
NonText == [kind |-> "nontext"]

\* what a well-behaved override returns: here one that only drops the
\* DISCONTINUITY lines
CustomFunctionText(type, content) ==
  Join(SelectSeq(Split(content), LAMBDA l : ~HasDiscontinuity(l)))

FilterAdsFromM3U8(code, type, content) ==
  IF code # "" /\ Trim(code) # ""
  THEN CASE code = "returnsText" -> Text(CustomFunctionText(type, content))
         [] code = "returnsNonText" -> NonText
         [] OTHER -> Text(DefaultFilter(type, content))   \* the catch falls through
  ELSE Text(DefaultFilter(type, content))

InitFilter ==
  /\ customAdFilterCode \in CustomCodes
  /\ fType \in ProviderTypes
  /\ fContent \in Manifests
  /\ fPc = "idle"
  /\ fOut = Text(EmptyText)
  /\ fOut2 = Text(EmptyText)

\* the loader hands a manifest to filterAdsFromM3U8
CallFilter ==
  /\ fPc = "idle"
  /\ fOut' = FilterAdsFromM3U8(customAdFilterCode, fType, fContent)
  /\ fPc' = "once"
  /\ UNCHANGED <<customAdFilterCode, fType, fContent, fOut2>>
  /\ UNCHANGED <<selVars, playerVars, sessionVars>>

\* the filtered text is filtered once more
CallFilterAgain ==
  /\ fPc = "once"
  /\ fOut.kind = "text"
  /\ fOut2' = FilterAdsFromM3U8(customAdFilterCode, fType, fOut.text)
  /\ fPc' = "twice"
  /\ UNCHANGED <<customAdFilterCode, fType, fContent, fOut>>
  /\ UNCHANGED <<selVars, playerVars, sessionVars>>

NextFilter == CallFilter \/ CallFilterAgain


\* ------------------------------------------------------------------------
\* Player life cycle
\* ------------------------------------------------------------------------
VideoUrls == {"", "ep1.m3u8", "ep2.m3u8"}

\* the decoder of the stored player: none yet, attached, or destroyed
NoHls == [state |-> "none", loader |-> "default", blockAd |-> FALSE, lastCall |-> "none"]

\* hls.destroy() on the decoder of the stored player, when there is one
DestroyedHls(h) == IF h.state = "attached" THEN [h EXCEPT !.state = "destroyed"] ELSE h


InitPlayerState ==
  /\ videoUrl = ""
  /\ loading = TRUE
  /\ blockAdEnabled \in BOOLEAN
  /\ isWebkit \in BOOLEAN
  /\ artPlayerRef = 0
  /\ alive = {}
  /\ created = 0
  /\ pendingInits = 0
  /\ effectDue = FALSE
  /\ switched = 0

\* cleanupPlayer, and the destroy sequence of the ad-filter toggle: the stored
\* instance is destroyed and the handle emptied
AliveAfterCleanup(ref, al) == IF ref # 0 THEN al \ {ref} ELSE al

\* where the body of cleanupPlayer's try block throws: nowhere, in
\* video.hls.destroy(), or in artPlayerRef.current.destroy()
CleanupFaults == {"none", "hls", "art"}

\* the same statements without the try/catch around them
CleanupPlayerNoCatch(ref, h, al, fault) ==
  IF ref = 0 THEN [ref |-> ref, hls |-> h, alive |-> al, threw |-> FALSE]
  ELSE IF fault = "hls" THEN [ref |-> ref, hls |-> h, alive |-> al, threw |-> TRUE]
  ELSE IF fault = "art"
  THEN [ref |-> ref, hls |-> DestroyedHls(h), alive |-> al, threw |-> TRUE]
  ELSE [ref |-> 0, hls |-> DestroyedHls(h), alive |-> al \ {ref}, threw |-> FALSE]

\* cleanupPlayer(): what it leaves of the handle, the decoder and the live
\* instances, and whether an exception leaves the function. A statement that
\* throws ends the try block; the catch empties the handle.
CleanupPlayerOutcome(ref, h, al, fault) ==
  IF ref = 0 THEN [ref |-> ref, hls |-> h, alive |-> al, threw |-> FALSE]
  ELSE IF fault = "hls" THEN [ref |-> 0, hls |-> h, alive |-> al, threw |-> FALSE]
  ELSE IF fault = "art"
  THEN [ref |-> 0, hls |-> DestroyedHls(h), alive |-> al, threw |-> FALSE]
  ELSE [ref |-> 0, hls |-> DestroyedHls(h), alive |-> al \ {ref}, threw |-> FALSE]

\* the faults a call can meet: none when there is no player to destroy
FaultsFor(ref) == IF ref = 0 THEN {"none"} ELSE CleanupFaults

\* a call of cleanupPlayer()
CleanupPlayer(fault) ==
  /\ artPlayerRef' = CleanupPlayerOutcome(artPlayerRef, hls, alive, fault).ref
  /\ hls' = CleanupPlayerOutcome(artPlayerRef, hls, alive, fault).hls
  /\ alive' = CleanupPlayerOutcome(artPlayerRef, hls, alive, fault).alive
  /\ cleanupLog' = [tick |-> 1 - cleanupLog.tick, had |-> artPlayerRef # 0,
                    fault |-> fault,
                    threw |-> CleanupPlayerOutcome(artPlayerRef, hls, alive, fault).threw]

\* a path that ends the session of the stored player is taken
TeardownBy(path) == teardownLog' = [tick |-> 1 - teardownLog.tick, path |-> path]

\* initAll ends: setLoading(false)
FinishLoading ==
  /\ loading
  /\ recordsLoad # "pending"
  /\ loading' = FALSE
  /\ effectDue' = TRUE
  /\ UNCHANGED <<videoUrl, blockAdEnabled, isWebkit, artPlayerRef, alive, created,
                 pendingInits, switched>>
  /\ UNCHANGED <<selVars, filterVars, sessionVars>>

\* updateVideoUrl: setVideoUrl with a different address
SetVideoUrl(u) ==
  /\ u # videoUrl
  /\ videoUrl' = u
  /\ effectDue' = TRUE
  /\ UNCHANGED <<loading, blockAdEnabled, isWebkit, artPlayerRef, alive, created,
                 pendingInits, switched>>
  /\ UNCHANGED <<selVars, filterVars, sessionVars>>

\* currentEpisodeIndex or detail is set: another dependency of the effect
SetEpisodeOrDetail ==
  /\ ~loading
  /\ ~effectDue
  /\ effectDue' = TRUE
  /\ UNCHANGED <<videoUrl, loading, blockAdEnabled, isWebkit, artPlayerRef, alive,
                 created, pendingInits, switched>>
  /\ UNCHANGED <<selVars, filterVars, sessionVars>>

\* onClick of the ad-filter setting of a live player
ToggleBlockAd ==
  /\ alive # {}
  /\ alive' = AliveAfterCleanup(artPlayerRef, alive)
  /\ artPlayerRef' = 0
  /\ blockAdEnabled' = ~blockAdEnabled
  /\ effectDue' = TRUE
  /\ IF artPlayerRef # 0
     THEN /\ resumeTimeRef' = currentTime
          /\ resumeFor' = currentEpisodeIndex
          /\ seeksSinceSet' = 0
          /\ hls' = DestroyedHls(hls)
          /\ TeardownBy("toggle")
     ELSE UNCHANGED <<resumeTimeRef, resumeFor, seeksSinceSet, hls, teardownLog>>
  /\ UNCHANGED <<videoUrl, loading, isWebkit, created, pendingInits, switched>>
  /\ UNCHANGED <<blockAdEnabledRef, lastLoad, error, fatalRun, cleanupLog>>
  /\ UNCHANGED <<skipStoreVars, adSyncVars, initVars, sourceVars, flushVars,
                 laterButResumeFor>>
  /\ UNCHANGED <<selVars, filterVars, mediaVars, skipVars, now, episodeVars,
                 progressVars, wakeVars>>

\* a switch on every platform
UsesSwitchOnAnyPlatform == artPlayerRef # 0

\* the effect takes the in-place switch
UsesSwitch == ~isWebkit /\ artPlayerRef # 0

\* the player init effect runs after a render in which a dependency changed
PlayerInitEffect ==
  /\ effectDue
  /\ effectDue' = FALSE
  /\ IF videoUrl = "" \/ loading
     THEN UNCHANGED <<artPlayerRef, alive, pendingInits, switched, hls, teardownVars,
                      playerUrl>>
     ELSE IF UsesSwitch
     THEN /\ switched' = Min2(switched + 1, 1)
          /\ playerUrl' = videoUrl
          /\ UNCHANGED <<artPlayerRef, alive, pendingInits, hls, teardownVars>>
     ELSE /\ pendingInits < MaxPendingInits
          /\ IF artPlayerRef # 0
             THEN /\ \E f \in CleanupFaults : CleanupPlayer(f)
                  /\ TeardownBy("rebuild")
             ELSE UNCHANGED <<artPlayerRef, alive, hls, teardownVars>>
          /\ pendingInits' = pendingInits + 1
          /\ UNCHANGED <<switched, playerUrl>>
  /\ UNCHANGED <<videoUrl, loading, blockAdEnabled, isWebkit, created>>
  /\ UNCHANGED <<blockAdEnabledRef, lastLoad, error, fatalRun>>
  /\ UNCHANGED <<skipStoreVars, adSyncVars, initVars, sourceVars, flushVars, laterButStream>>
  /\ UNCHANGED <<selVars, filterVars, mediaVars, resumeVars, skipVars, now,
                 episodeVars, progressVars, wakeVars>>

\* initPlayer resumes after the dynamic imports: new Artplayer(...) is stored
InitPlayerResumes ==
  /\ pendingInits > 0
  /\ created < MaxInstances
  /\ pendingInits' = pendingInits - 1
  /\ created' = created + 1
  /\ alive' = alive \cup {created + 1}
  /\ artPlayerRef' = created + 1
  /\ playerUrl' = videoUrl
  /\ UNCHANGED <<videoUrl, loading, blockAdEnabled, isWebkit, effectDue, switched>>
  /\ UNCHANGED <<hlsVars, mediaVars, resumeVars, skipVars, now, episodeVars, progressVars,
                 wakeVars, earlierVars, laterButStream>>
  /\ UNCHANGED <<selVars, filterVars>>

\* initPlayer throws (an import or the constructor fails): the catch reports it
InitPlayerFails ==
  /\ pendingInits > 0
  /\ pendingInits' = pendingInits - 1
  /\ UNCHANGED <<videoUrl, loading, blockAdEnabled, isWebkit, artPlayerRef, alive,
                 created, effectDue, switched>>
  /\ UNCHANGED <<selVars, filterVars, sessionVars>>

NextPlayer ==
  \/ FinishLoading
  \/ \E u \in VideoUrls : SetVideoUrl(u)
  \/ SetEpisodeOrDetail
  \/ ToggleBlockAd
  \/ PlayerInitEffect
  \/ InitPlayerResumes
  \/ InitPlayerFails

\* ------------------------------------------------------------------------
\* HLS decoder: loader choice, manifest interceptor, error handler
\* ------------------------------------------------------------------------
NoLoad == [type |-> "none", data |-> NonText, delivered |-> NonText]

\* context.type of a fetch, and what response.data can be: a string (possibly
\* the empty one) or a binary buffer
FetchTypes == {"manifest", "level", "audioTrack", "fragment"}
LoaderTexts == { EmptyText,
                 << <<"seg.ts">> >>,
                 << <<DISCONTINUITY>>, <<"seg.ts">> >>,
                 << <<"#", "EXTINF:6.000000", ",">>, <<DISCONTINUITY>> >> }
LoaderPayloads == { Text(t) : t \in LoaderTexts } \cup {NonText}

\* response.data && typeof response.data === 'string'
IsNonEmptyString(data) == data.kind = "text" /\ data.text # EmptyText

\* an interceptor that looks at the payload only
CustomLoaderAnyType(type, data, code, source) ==
  IF IsNonEmptyString(data)
  THEN FilterAdsFromM3U8(code, source, data.text)
  ELSE data

\* CustomHlsJsLoader.load: what reaches the decoder's onSuccess
CustomLoader(type, data, code, source) ==
  IF type = "manifest" \/ type = "level"
  THEN IF IsNonEmptyString(data)
       THEN FilterAdsFromM3U8(code, source, data.text)
       ELSE data
  ELSE data

\* Hls.DefaultConfig.loader
DefaultLoader(type, data) == data

\* loader: blockAdEnabledRef.current ? CustomHlsJsLoader : Hls.DefaultConfig.loader
LoaderChoice(ref) == IF ref THEN "custom" ELSE "default"

InitHls ==
  /\ blockAdEnabledRef = blockAdEnabled
  /\ hls = NoHls
  /\ lastLoad = NoLoad
  /\ error = ""
  /\ fatalRun = 0

\* setBlockAdEnabled(b) is committed and the effect mirrors it into the ref
SyncBlockAdRef(b) ==
  /\ b # blockAdEnabled
  /\ blockAdEnabled' = b
  /\ blockAdEnabledRef' = b
  /\ UNCHANGED <<hls, lastLoad, error, fatalRun>>
  /\ UNCHANGED <<videoUrl, loading, isWebkit, artPlayerRef, alive, created,
                 pendingInits, effectDue, switched>>
  /\ UNCHANGED <<selVars, filterVars, pageVars, mediaVars, resumeVars, skipVars, now,
                 episodeVars, progressVars, wakeVars>>

\* customType.m3u8: the player (new or switched in place) is given a decoder
CreateHls ==
  /\ artPlayerRef # 0
  /\ hls' = [state |-> "attached", loader |-> LoaderChoice(blockAdEnabledRef),
             blockAd |-> blockAdEnabled, lastCall |-> "none"]
  /\ fatalRun' = 0
  /\ UNCHANGED <<blockAdEnabledRef, lastLoad, error>>
  /\ UNCHANGED <<selVars, filterVars, pageVars, playerVars, mediaVars, resumeVars, skipVars,
                 now, episodeVars, progressVars, wakeVars>>

\* a fetch of the decoder succeeds: its loader hands the response on
LoaderResponse(type, data) ==
  /\ hls.state = "attached"
  /\ lastLoad' = [type |-> type, data |-> data,
                  delivered |-> IF hls.loader = "custom"
                                THEN CustomLoader(type, data, customAdFilterCode, fType)
                                ELSE DefaultLoader(type, data)]
  /\ UNCHANGED <<blockAdEnabledRef, hls, error, fatalRun>>
  /\ UNCHANGED <<selVars, filterVars, pageVars, playerVars, mediaVars, resumeVars, skipVars,
                 now, episodeVars, progressVars, wakeVars>>

ErrorTypes == {"networkError", "mediaError", "muxError", "otherError"}

\* a handler that tears the decoder down on every fatal error
HlsAfterErrorAlwaysDestroy(h, fatal, type) ==
  IF ~fatal THEN h
  ELSE [h EXCEPT !.state = "destroyed", !.lastCall = "destroy"]

\* the Hls.Events.ERROR handler: the decoder after it ran
HlsAfterError(h, fatal, type) ==
  IF ~fatal THEN h
  ELSE CASE type = "networkError" -> [h EXCEPT !.lastCall = "startLoad"]
         [] type = "mediaError" -> [h EXCEPT !.lastCall = "recoverMediaError"]
         [] OTHER -> [h EXCEPT !.state = "destroyed", !.lastCall = "destroy"]

\* hls.js reports an error to the handler
HlsError(fatal, type) ==
  /\ hls.state = "attached"
  /\ fatal /\ type = "networkError" => fatalRun < MaxFatalRun
  /\ hls' = HlsAfterError(hls, fatal, type)
  /\ fatalRun' = IF ~fatal THEN fatalRun
                 ELSE IF type = "networkError" THEN fatalRun + 1 ELSE 0
  /\ UNCHANGED <<blockAdEnabledRef, lastLoad, error>>
  /\ UNCHANGED <<selVars, filterVars, pageVars, playerVars, mediaVars, resumeVars, skipVars,
                 now, episodeVars, progressVars, wakeVars>>

\* the decoder renders a frame: a run of network failures is over
FrameRendered ==
  /\ hls.state = "attached"
  /\ fatalRun > 0
  /\ fatalRun' = 0
  /\ UNCHANGED <<blockAdEnabledRef, hls, lastLoad, error>>
  /\ UNCHANGED <<selVars, filterVars, pageVars, playerVars, mediaVars, resumeVars, skipVars,
                 now, episodeVars, progressVars, wakeVars>>

NextHls ==
  \/ \E b \in BOOLEAN : SyncBlockAdRef(b)
  \/ CreateHls
  \/ \E type \in FetchTypes, data \in LoaderPayloads : LoaderResponse(type, data)
  \/ \E fatal \in BOOLEAN, type \in ErrorTypes : HlsError(fatal, type)
  \/ FrameRendered

\* ------------------------------------------------------------------------
\* Playback session: media element, can-play resume
\* ------------------------------------------------------------------------
\* null of a number-valued ref
Null == 0 - 1

\* a player is mounted and stored: what the player life cycle reaches after
\* initPlayer resumed once
PlayerPresent ==
  /\ videoUrl = "ep1.m3u8" /\ loading = FALSE
  /\ blockAdEnabled = TRUE /\ isWebkit = FALSE
  /\ artPlayerRef = 1 /\ alive = {1} /\ created = 1 /\ pendingInits = 0
  /\ effectDue = FALSE /\ switched = 0

Max2(a, b) == IF a > b THEN a ELSE b

\* seconds before the end from which a resume target counts as "at the end",
\* and how far before the end the seek then lands
ResumeEndMargin == 2
ResumeBackoff == 5

\* a clamp that only keeps the target inside the media
ResumeSeekTargetToEnd(target, d) ==
  IF d # 0 /\ target >= d THEN d ELSE target

\* the position the can-play handler seeks to for a pending target > 0;
\* d = 0 stands for an unknown duration (artPlayerRef.current.duration || 0)
ResumeSeekTarget(target, d) ==
  IF d # 0 /\ target >= d - ResumeEndMargin
  THEN Max2(0, d - ResumeBackoff)
  ELSE target

\* a handler that keeps the target for the next can-play
ResumeAfterCanPlayKept(target) == target

\* resumeTimeRef.current = null at the end of the can-play handler
ResumeAfterCanPlay(target) == Null

ResumeDurations == {0, 1, 4, 100}
ResumeTargets == {0, 1, 3, 50, 99}
Positions == {0, 30, 1175}
Durations == {0, 1200}

\* loadedmetadata of a newly attached stream
MediaLoaded(d) ==
  /\ artPlayerRef # 0
  /\ d # duration
  /\ duration' = d
  /\ currentTime' = 0
  /\ UNCHANGED <<paused, lastSeeks>>
  /\ UNCHANGED <<selVars, filterVars, pageVars, playerVars, hlsVars, resumeVars, skipVars, now,
                 episodeVars, progressVars, wakeVars>>

\* playback, or a seek of the viewer, moves the play position
TimeAdvances(p) ==
  /\ artPlayerRef # 0
  /\ p # currentTime
  /\ p <= duration
  /\ currentTime' = p
  /\ UNCHANGED <<duration, paused, lastSeeks>>
  /\ UNCHANGED <<selVars, filterVars, pageVars, playerVars, hlsVars, resumeVars, skipVars, now,
                 episodeVars, progressVars, wakeVars>>

\* initAll reads a play record, or handleSourceChange keeps the position
SetResumeTime(t) ==
  /\ resumeTimeRef' = t
  /\ resumeFor' = currentEpisodeIndex
  /\ seeksSinceSet' = 0
  /\ UNCHANGED <<selVars, filterVars, pageButResumeFor, playerVars, hlsVars, mediaVars,
                 skipVars, now, episodeVars, progressVars, wakeVars>>

\* the video:canplay handler
CanPlay ==
  /\ artPlayerRef # 0
  /\ IF resumeTimeRef # Null /\ resumeTimeRef > 0
     THEN /\ currentTime' = ResumeSeekTarget(resumeTimeRef, duration)
          /\ lastSeeks' = <<ResumeSeekTarget(resumeTimeRef, duration)>>
          /\ seeksSinceSet' = seeksSinceSet + 1
     ELSE /\ lastSeeks' = <<>>
          /\ UNCHANGED <<currentTime, seeksSinceSet>>
  /\ resumeTimeRef' = ResumeAfterCanPlay(resumeTimeRef)
  /\ resumeFor' = Null
  /\ UNCHANGED <<duration, paused>>
  /\ UNCHANGED <<selVars, filterVars, pageButResumeFor, playerVars, hlsVars, skipVars, now,
                 episodeVars, progressVars, wakeVars>>

InitResume ==
  /\ currentTime = 0 /\ duration = 0 /\ paused = TRUE /\ lastSeeks = <<>>
  /\ resumeTimeRef = Null /\ seeksSinceSet = 0

NextResume ==
  \/ \E d \in ResumeDurations : MediaLoaded(d)
  \/ \E t \in ResumeTargets : SetResumeTime(t)
  \/ CanPlay

\* ------------------------------------------------------------------------
\* Playback session: clock, play-progress saving, wake lock, episodes, skip
\* ------------------------------------------------------------------------
ClockStepMs == 500
SkipCheckMs == 1500
MinScanInterval == 60
DefaultExpireMinutes == 4320
SaveIntervalMs == 5000
UpstashSaveIntervalMs == 20000
\* Date.now() when the session starts: later than every interval after 0
StartNow == 2 * UpstashSaveIntervalMs

\* time passes
\* the time between two time-update events of a stalled or throttled page
LongStepMs == SaveIntervalMs \div 2

\* Date.now() moves on by half a default save interval
LongTick ==
  /\ now < StartNow + MaxLongTicks * LongStepMs
  /\ now' = now + LongStepMs
  /\ UNCHANGED <<selVars, filterVars, pageVars, playerVars, hlsVars, mediaVars, resumeVars,
                 skipVars, episodeVars, progressVars, wakeVars>>

Tick ==
  /\ now < StartNow + MaxClockTicks * ClockStepMs
  /\ now' = now + ClockStepMs
  /\ UNCHANGED <<selVars, filterVars, pageVars, playerVars, hlsVars, mediaVars, resumeVars,
                 skipVars, episodeVars, progressVars, wakeVars>>

NoRecord == [index |-> 0, play_time |-> 0, total_time |-> 0]

\* a guard that looks at the refs only
SaveWritesAnyPosition(player, meta, cur, dur) == player # 0 /\ meta

\* saveCurrentPlayProgress reaches savePlayRecord: none of its early returns
\* is taken (cur and dur are player.currentTime || 0 and player.duration || 0)
SaveWrites(player, meta, cur, dur) ==
  /\ player # 0 /\ meta
  /\ ~(cur < 1 \/ dur = 0)

\* the record handed to savePlayRecord (times are whole seconds here, so
\* Math.floor leaves them as they are)
SavedRecord(idxRef, cur, dur) ==
  [index |-> idxRef + 1, play_time |-> cur, total_time |-> dur]

\* saveCurrentPlayProgress() up to its await, called by `trigger` when the
\* play position is cur
SaveCurrentPlayProgress(trigger, cur) ==
  /\ lastTrigger' = trigger
  /\ IF SaveWrites(artPlayerRef, metaReady, cur, duration)
     THEN /\ playRecord' = SavedRecord(currentEpisodeIndexRef, cur, duration)
          /\ savePending' = TRUE
     ELSE UNCHANGED <<playRecord, savePending>>

\* savePlayRecord resolves: lastSaveTimeRef.current = Date.now()
SaveSettles ==
  /\ savePending
  /\ lastSaveTimeRef' = now
  /\ savePending' \in BOOLEAN
  /\ UNCHANGED <<metaReady, storageType, playRecord, lastTrigger>>
  /\ UNCHANGED <<selVars, filterVars, pageVars, playerVars, hlsVars, mediaVars, resumeVars,
                 skipVars, now, episodeVars, wakeVars>>

\* savePlayRecord rejects: the catch only logs
SaveFails ==
  /\ savePending
  /\ savePending' = FALSE
  /\ UNCHANGED <<metaReady, storageType, playRecord, lastSaveTimeRef, lastTrigger>>
  /\ UNCHANGED <<selVars, filterVars, pageVars, playerVars, hlsVars, mediaVars, resumeVars,
                 skipVars, now, episodeVars, wakeVars>>

\* a release that does nothing
ReleaseWakeLockNever ==
  UNCHANGED <<wakeLockRef, wlHeld, wlGranted, wlRequesting, wlReleasing>>

\* releaseWakeLock() up to its await: a held sentinel is asked to release
ReleaseWakeLock ==
  /\ wlHeld' = wlHeld \ {wakeLockRef}
  /\ wlReleasing' = (wlReleasing \/ wakeLockRef # 0)
  /\ UNCHANGED <<wakeLockRef, wlGranted, wlRequesting>>

\* requestWakeLock() up to its await: navigator.wakeLock.request('screen')
RequestWakeLock ==
  /\ wlRequesting' = TRUE
  /\ UNCHANGED <<wakeLockRef, wlHeld, wlGranted, wlReleasing>>

\* the request resolves: the sentinel is stored
WakeLockGranted ==
  /\ wlRequesting
  /\ wlGranted < MaxSentinels
  /\ wlGranted' = wlGranted + 1
  /\ wakeLockRef' = wlGranted + 1
  /\ wlHeld' = wlHeld \cup {wlGranted + 1}
  /\ wlRequesting' \in BOOLEAN
  /\ UNCHANGED wlReleasing
  /\ UNCHANGED <<selVars, filterVars, pageVars, playerVars, hlsVars, mediaVars, resumeVars,
                 skipVars, now, episodeVars, progressVars>>

\* the request rejects: the catch only logs
WakeLockRejected ==
  /\ wlRequesting
  /\ wlRequesting' = FALSE
  /\ UNCHANGED <<wakeLockRef, wlHeld, wlGranted, wlReleasing>>
  /\ UNCHANGED <<selVars, filterVars, pageVars, playerVars, hlsVars, mediaVars, resumeVars,
                 skipVars, now, episodeVars, progressVars>>

\* releaseWakeLock resumes after its await: wakeLockRef.current = null
ReleaseResumes ==
  /\ wlReleasing
  /\ wakeLockRef' = 0
  /\ wlReleasing' \in BOOLEAN
  /\ UNCHANGED <<wlHeld, wlGranted, wlRequesting>>
  /\ UNCHANGED <<selVars, filterVars, pageVars, playerVars, hlsVars, mediaVars, resumeVars,
                 skipVars, now, episodeVars, progressVars>>

\* the play listener
PlayEvent ==
  /\ artPlayerRef # 0
  /\ paused
  /\ paused' = FALSE
  /\ RequestWakeLock
  /\ UNCHANGED <<currentTime, duration, lastSeeks>>
  /\ UNCHANGED <<selVars, filterVars, pageVars, playerVars, hlsVars, resumeVars, skipVars, now,
                 episodeVars, progressVars>>

\* the two pause listeners, in the order they were registered
PauseEvent ==
  /\ artPlayerRef # 0
  /\ ~paused
  /\ paused' = TRUE
  /\ ReleaseWakeLock
  /\ SaveCurrentPlayProgress("pause", currentTime)
  /\ UNCHANGED <<currentTime, duration, lastSeeks>>
  /\ UNCHANGED <<metaReady, storageType, lastSaveTimeRef>>
  /\ UNCHANGED <<selVars, filterVars, pageVars, playerVars, hlsVars, resumeVars, skipVars, now,
                 episodeVars>>

StorageTypes == {"localstorage", "upstash"}

\* the interval of the save listener
\* one interval for every backend
SaveIntervalDefaultOnly(storage) == SaveIntervalMs

SaveInterval(storage) ==
  IF storage = "upstash" THEN UpstashSaveIntervalMs ELSE SaveIntervalMs

\* the video:timeupdate listener that saves the progress
TimeUpdateSave ==
  /\ artPlayerRef # 0
  /\ IF now - lastSaveTimeRef > SaveInterval(storageType)
     THEN /\ SaveCurrentPlayProgress("timeupdate", currentTime)
          /\ lastSaveTimeRef' = now
          /\ timeUpdateFlushAt' = now
     ELSE UNCHANGED <<playRecord, savePending, lastSaveTimeRef, lastTrigger,
                      timeUpdateFlushAt>>
  /\ UNCHANGED <<metaReady, storageType>>
  /\ UNCHANGED <<selVars, filterVars, otherThanFlush, playerVars, hlsVars, mediaVars,
                 resumeVars, skipVars, now, episodeVars, wakeVars>>

\* handleVisibilityChange, document hidden
VisibilityHidden ==
  /\ SaveCurrentPlayProgress("visibility", currentTime)
  /\ ReleaseWakeLock
  /\ UNCHANGED <<metaReady, storageType, lastSaveTimeRef>>
  /\ UNCHANGED <<selVars, filterVars, pageVars, playerVars, hlsVars, mediaVars, resumeVars,
                 skipVars, now, episodeVars>>

\* handleVisibilityChange, document visible again
VisibilityVisible ==
  /\ IF artPlayerRef # 0 /\ ~paused
     THEN RequestWakeLock
     ELSE UNCHANGED wakeVars
  /\ UNCHANGED <<selVars, filterVars, pageVars, playerVars, hlsVars, mediaVars, resumeVars,
                 skipVars, now, episodeVars, progressVars>>

\* ------------------------------------------------------------------------
\* Anime4K: the frame-capture loop of initAnime4K, cleanupAnime4K
\* ------------------------------------------------------------------------
NoAnime4K == [set |-> FALSE, loop |-> 0, frameRequestId |-> 0]
NoA4kInit == [active |-> FALSE, loop |-> 0]

\* the local frameRequestId of the initAnime4K call that started loop l: every
\* run of captureVideoFrame assigns it the id it has just been given
LocalFrameRequestId(l) ==
  IF \E f \in frames : f.loop = l
  THEN (CHOOSE f \in frames : f.loop = l).id
  ELSE 0

\* cancelAnimationFrame(id): a callback that has run is no longer scheduled,
\* cancelling its id does nothing
CancelAnimationFrame(fs, id) == { f \in fs : f.id # id }

\* initAnime4K up to its first await: a stored record is dropped, and on
\* Firefox captureVideoFrame runs once and schedules itself
InitAnime4K ==
  /\ artPlayerRef # 0
  /\ ~a4kInit.active
  /\ rafIssued < MaxFrames
  /\ anime4kRef' = NoAnime4K
  /\ IF isFirefox
     THEN /\ frames' = frames \cup {[loop |-> rafIssued + 1, id |-> rafIssued + 1]}
          /\ rafIssued' = rafIssued + 1
          /\ a4kInit' = [active |-> TRUE, loop |-> rafIssued + 1]
     ELSE /\ a4kInit' = [active |-> TRUE, loop |-> 0]
          /\ UNCHANGED <<frames, rafIssued>>
  /\ UNCHANGED <<isFirefox, a4kCleaned>>
  /\ UNCHANGED <<selVars, filterVars, playerVars, teardownVars, otherThanA4k, hlsVars,
                 mediaVars, resumeVars, skipVars, now, episodeVars, progressVars, wakeVars>>

\* the browser runs a scheduled captureVideoFrame: it draws the video onto the
\* source canvas of its own call and schedules itself again
CaptureVideoFrame(f) ==
  /\ f \in frames
  /\ rafIssued < MaxFrames
  /\ frames' = (frames \ {f}) \cup {[loop |-> f.loop, id |-> rafIssued + 1]}
  /\ rafIssued' = rafIssued + 1
  /\ UNCHANGED <<isFirefox, anime4kRef, a4kInit, a4kCleaned>>
  /\ UNCHANGED <<selVars, filterVars, playerVars, teardownVars, otherThanA4k, hlsVars,
                 mediaVars, resumeVars, skipVars, now, episodeVars, progressVars, wakeVars>>

\* initAnime4K after anime4kRender resolved: the record keeps the value the
\* local frameRequestId has at this moment
Anime4KInitCompletes ==
  /\ a4kInit.active
  /\ anime4kRef' = [set |-> TRUE, loop |-> a4kInit.loop,
                    frameRequestId |-> IF isFirefox
                                       THEN LocalFrameRequestId(a4kInit.loop) ELSE 0]
  /\ a4kInit' = NoA4kInit
  /\ UNCHANGED <<isFirefox, frames, rafIssued, a4kCleaned>>
  /\ UNCHANGED <<selVars, filterVars, playerVars, teardownVars, otherThanA4k, hlsVars,
                 mediaVars, resumeVars, skipVars, now, episodeVars, progressVars, wakeVars>>

\* the import or anime4kRender rejects: the catch cancels the local
\* frameRequestId
Anime4KInitFails ==
  /\ a4kInit.active
  /\ frames' = CancelAnimationFrame(frames, LocalFrameRequestId(a4kInit.loop))
  /\ a4kInit' = NoA4kInit
  /\ UNCHANGED <<isFirefox, anime4kRef, rafIssued, a4kCleaned>>
  /\ UNCHANGED <<selVars, filterVars, playerVars, teardownVars, otherThanA4k, hlsVars,
                 mediaVars, resumeVars, skipVars, now, episodeVars, progressVars, wakeVars>>

\* the body of cleanupAnime4K: cancelAnimationFrame of the stored id, then
\* anime4kRef.current = null
CleanupAnime4KBody ==
  /\ IF anime4kRef.set
     THEN /\ frames' = CancelAnimationFrame(frames, anime4kRef.frameRequestId)
          /\ anime4kRef' = NoAnime4K
          /\ a4kCleaned' = a4kCleaned \cup ({anime4kRef.loop} \ {0})
     ELSE UNCHANGED <<frames, anime4kRef, a4kCleaned>>
  /\ UNCHANGED <<isFirefox, a4kInit, rafIssued>>

\* toggleAnime4K(false): cleanupAnime4K of a stored record
CleanupAnime4K ==
  /\ anime4kRef.set
  /\ CleanupAnime4KBody
  /\ UNCHANGED <<selVars, filterVars, playerVars, teardownVars, otherThanA4k, hlsVars,
                 mediaVars, resumeVars, skipVars, now, episodeVars, progressVars, wakeVars>>

\* handleBeforeUnload: save, release, cleanupPlayer
BeforeUnload ==
  /\ SaveCurrentPlayProgress("unload", currentTime)
  /\ ReleaseWakeLock
  /\ \E f \in FaultsFor(artPlayerRef) : CleanupPlayer(f)
  /\ TeardownBy("unload")
  /\ UNCHANGED <<metaReady, storageType, lastSaveTimeRef>>
  /\ UNCHANGED <<videoUrl, loading, blockAdEnabled, isWebkit, created, pendingInits,
                 effectDue, switched>>
  /\ UNCHANGED <<blockAdEnabledRef, lastLoad, error, fatalRun>>
  /\ UNCHANGED <<selVars, filterVars, extraVars, mediaVars, resumeVars, skipVars, now,
                 episodeVars>>

\* the cleanup of the unmount effect: releaseWakeLock, cleanupAnime4K,
\* cleanupPlayer
Unmount ==
  /\ ReleaseWakeLock
  /\ CleanupAnime4KBody
  /\ \E f \in FaultsFor(artPlayerRef) : CleanupPlayer(f)
  /\ TeardownBy("unmount")
  /\ UNCHANGED <<videoUrl, loading, blockAdEnabled, isWebkit, created, pendingInits,
                 effectDue, switched>>
  /\ UNCHANGED <<blockAdEnabledRef, lastLoad, error, fatalRun>>
  /\ UNCHANGED <<selVars, filterVars, otherThanA4k, mediaVars, resumeVars, skipVars, now,
                 episodeVars, progressVars>>

\* the effect that mirrors currentEpisodeIndex into its ref
EpisodeRefEffect ==
  /\ currentEpisodeIndexRef # currentEpisodeIndex
  /\ currentEpisodeIndexRef' = currentEpisodeIndex
  /\ UNCHANGED <<currentEpisodeIndex, episodesLen>>
  /\ UNCHANGED <<selVars, filterVars, pageVars, playerVars, hlsVars, mediaVars, resumeVars,
                 skipVars, now, progressVars, wakeVars>>

\* handleEpisodeChange(n): a click in the episode selector
HandleEpisodeChange(n) ==
  /\ IF n >= 0 /\ n < episodesLen
     THEN /\ IF artPlayerRef # 0 /\ paused
             THEN SaveCurrentPlayProgress("episode", currentTime)
             ELSE UNCHANGED <<playRecord, savePending, lastTrigger>>
          /\ currentEpisodeIndex' = n
     ELSE UNCHANGED <<playRecord, savePending, lastTrigger, currentEpisodeIndex>>
  /\ UNCHANGED <<currentEpisodeIndexRef, episodesLen>>
  /\ UNCHANGED <<metaReady, storageType, lastSaveTimeRef>>
  /\ UNCHANGED <<selVars, filterVars, pageVars, playerVars, hlsVars, mediaVars, resumeVars,
                 skipVars, now, wakeVars>>

\* handlePreviousEpisode
HandlePreviousEpisode ==
  /\ IF currentEpisodeIndexRef > 0
     THEN /\ IF artPlayerRef # 0 /\ ~paused
             THEN SaveCurrentPlayProgress("episode", currentTime)
             ELSE UNCHANGED <<playRecord, savePending, lastTrigger>>
          /\ currentEpisodeIndex' = currentEpisodeIndexRef - 1
     ELSE UNCHANGED <<playRecord, savePending, lastTrigger, currentEpisodeIndex>>
  /\ UNCHANGED <<currentEpisodeIndexRef, episodesLen>>
  /\ UNCHANGED <<metaReady, storageType, lastSaveTimeRef>>
  /\ UNCHANGED <<selVars, filterVars, pageVars, playerVars, hlsVars, mediaVars, resumeVars,
                 skipVars, now, wakeVars>>

\* idx < d.episodes.length - 1
HasNextEpisode(idxRef, len) == idxRef < len - 1

\* the body of handleNextEpisode when the play position is cur
NextEpisodeBody(cur) ==
  IF HasNextEpisode(currentEpisodeIndexRef, episodesLen)
  THEN /\ IF artPlayerRef # 0 /\ ~paused
          THEN SaveCurrentPlayProgress("episode", cur)
          ELSE UNCHANGED <<playRecord, savePending, lastTrigger>>
       /\ currentEpisodeIndex' = currentEpisodeIndexRef + 1
  ELSE UNCHANGED <<playRecord, savePending, lastTrigger, currentEpisodeIndex>>

\* handleNextEpisode: the next-episode control or shortcut
HandleNextEpisode ==
  /\ NextEpisodeBody(currentTime)
  /\ UNCHANGED <<currentEpisodeIndexRef, episodesLen>>
  /\ UNCHANGED <<metaReady, storageType, lastSaveTimeRef>>
  /\ UNCHANGED <<selVars, filterVars, pageVars, playerVars, hlsVars, mediaVars, resumeVars,
                 skipVars, now, wakeVars>>

\* the end of playback: the user agent pauses the element and fires pause,
\* then ended; the pause listeners release the wake lock and flush, the
\* video:ended listeners release again and, when a next episode exists, set the
\* one-second timer that selects idx + 1 (stream: the address that ended)
VideoEnded ==
  /\ artPlayerRef # 0
  /\ duration > 0
  /\ ~paused
  /\ currentTime' = duration
  /\ paused' = TRUE
  /\ ReleaseWakeLock
  /\ SaveCurrentPlayProgress("pause", duration)
  /\ endedTimers' =
       IF HasNextEpisode(currentEpisodeIndexRef, episodesLen)
       THEN endedTimers \cup {[target |-> currentEpisodeIndexRef + 1, stream |-> playerUrl]}
       ELSE endedTimers
  /\ UNCHANGED <<duration, lastSeeks>>
  /\ UNCHANGED <<metaReady, storageType, lastSaveTimeRef>>
  /\ UNCHANGED <<selVars, filterVars, playerVars, hlsVars, resumeVars, skipVars, now,
                 episodeVars, earlierVars, laterButAutoNext>>

\* the timer of the video:ended listener runs: setCurrentEpisodeIndex(idx + 1)
EndedTimerFires(t) ==
  /\ t \in endedTimers
  /\ endedTimers' = endedTimers \ {t}
  /\ currentEpisodeIndex' = t.target
  /\ UNCHANGED <<currentEpisodeIndexRef, episodesLen>>
  /\ UNCHANGED <<selVars, filterVars, playerVars, hlsVars, mediaVars, resumeVars, skipVars,
                 now, progressVars, wakeVars, earlierVars, laterButAutoNext>>

\* the comment episodes bound to the episodes of the series, by index
DanmakuEpisodesList == <<101, 102, 103>>
DanmakuOutcomes == {"comments", "empty", "fails"}

\* loadDanmaku up to its await: without the plugin nothing happens, otherwise
\* the track is cleared and getDanmakuById(episodeId) is started
TrackAfterLoadStarts(track, player) == IF player = 0 THEN track ELSE 0
LoadsAfterLoadStarts(loads, seq, episodeId, player) ==
  IF player = 0 THEN loads ELSE loads \cup {[seq |-> seq + 1, episodeId |-> episodeId]}

\* the track once getDanmakuById has settled: the episode's comments when any
\* arrived, the track as it is when none arrived or the call failed
TrackAfterLoadSettles(track, load, outcome) ==
  IF outcome = "comments" THEN load.episodeId ELSE track

\* the effect on [currentEpisodeIndex]: with a binding and a comment episode
\* for the index it rebinds the selection and calls loadDanmaku
EpisodeDanmakuEffect ==
  /\ danmakuEffectIndex # currentEpisodeIndex
  /\ danmakuLoadSeq < MaxDanmakuLoads
  /\ danmakuEffectIndex' = currentEpisodeIndex
  /\ IF /\ currentDanmakuSelection # Null
        /\ Len(DanmakuEpisodesList) > 0
        /\ currentEpisodeIndex < Len(DanmakuEpisodesList)
        /\ DanmakuEpisodesList[currentEpisodeIndex + 1] # currentDanmakuSelection
     THEN /\ currentDanmakuSelection' = DanmakuEpisodesList[currentEpisodeIndex + 1]
          /\ danmakuTrack' = TrackAfterLoadStarts(danmakuTrack, artPlayerRef)
          /\ danmakuLoads' = LoadsAfterLoadStarts(danmakuLoads, danmakuLoadSeq,
                                 DanmakuEpisodesList[currentEpisodeIndex + 1], artPlayerRef)
          /\ danmakuLoadSeq' = danmakuLoadSeq + 1
     ELSE UNCHANGED <<currentDanmakuSelection, danmakuTrack, danmakuLoads, danmakuLoadSeq>>
  /\ UNCHANGED <<selVars, filterVars, playerVars, hlsVars, mediaVars, resumeVars, skipVars,
                 now, episodeVars, progressVars, wakeVars, earlierVars, laterButComment>>

\* getDanmakuById of one loadDanmaku call settles and the call runs to its end
GetDanmakuByIdSettles(load, outcome) ==
  /\ load \in danmakuLoads
  /\ danmakuLoads' = danmakuLoads \ {load}
  /\ danmakuTrack' = TrackAfterLoadSettles(danmakuTrack, load, outcome)
  /\ UNCHANGED <<currentDanmakuSelection, danmakuLoadSeq, danmakuEffectIndex>>
  /\ UNCHANGED <<selVars, filterVars, playerVars, hlsVars, mediaVars, resumeVars, skipVars,
                 now, episodeVars, progressVars, wakeVars, earlierVars, laterButComment>>

SkipConfigs ==
  { [enable |-> FALSE, intro_time |-> 90, outro_time |-> 0 - 30],
    [enable |-> TRUE, intro_time |-> 90, outro_time |-> 0 - 30],
    [enable |-> TRUE, intro_time |-> 90, outro_time |-> 0],
    [enable |-> TRUE, intro_time |-> 0, outro_time |-> 0 - 30] }
EpisodesLens == {1, 2}

\* a limiter that lets every time-update through
SkipCheckRunsAlways(t, last) == TRUE

\* the limiter of the skip listener: not (now - lastSkipCheckRef.current < 1500)
SkipCheckRuns(t, last) == ~(t - last < SkipCheckMs)

\* a test that always finds a next episode
SkipHasNextAlways(idxRef, len) == TRUE

\* currentEpisodeIndexRef.current < (detailRef.current?.episodes?.length || 1) - 1
SkipHasNext(idxRef, len) == idxRef < (IF len = 0 THEN 1 ELSE len) - 1

IntroHit(cfg, cur) == cfg.intro_time > 0 /\ cur < cfg.intro_time
OutroHit(cfg, cur, dur) ==
  cfg.outro_time < 0 /\ dur > 0 /\ cur > dur + cfg.outro_time

\* the play position after the intro check
TimeAfterIntroCheck(cfg, cur) == IF IntroHit(cfg, cur) THEN cfg.intro_time ELSE cur

\* the video:timeupdate listener that skips intro and outro
TimeUpdateSkip ==
  /\ artPlayerRef # 0
  /\ IF skipConfigRef.enable /\ SkipCheckRuns(now, lastSkipCheckRef)
     THEN /\ lastSkipCheckRef' = now
          /\ currentTime' = TimeAfterIntroCheck(skipConfigRef, currentTime)
          /\ lastSeeks' = IF IntroHit(skipConfigRef, currentTime)
                          THEN <<skipConfigRef.intro_time>> ELSE <<>>
          /\ IF OutroHit(skipConfigRef, currentTime, duration)
             THEN IF SkipHasNext(currentEpisodeIndexRef, episodesLen)
                  THEN /\ NextEpisodeBody(TimeAfterIntroCheck(skipConfigRef, currentTime))
                       /\ UNCHANGED paused
                  ELSE /\ paused' = TRUE
                       /\ UNCHANGED <<playRecord, savePending, lastTrigger,
                                      currentEpisodeIndex>>
             ELSE UNCHANGED <<paused, playRecord, savePending, lastTrigger,
                              currentEpisodeIndex>>
     ELSE /\ lastSeeks' = <<>>
          /\ UNCHANGED <<lastSkipCheckRef, currentTime, paused, playRecord, savePending,
                         lastTrigger, currentEpisodeIndex>>
  /\ UNCHANGED <<duration, skipConfigRef, currentEpisodeIndexRef, episodesLen>>
  /\ UNCHANGED <<metaReady, storageType, lastSaveTimeRef>>
  /\ UNCHANGED <<selVars, filterVars, pageVars, playerVars, hlsVars, resumeVars, now, wakeVars>>

\* ------------------------------------------------------------------------
\* handleSkipConfigChange and the persisted skip configurations
\* ------------------------------------------------------------------------
ClearedSkipConfig == [enable |-> FALSE, intro_time |-> 0, outro_time |-> 0]
NewSkipConfigs ==
  { ClearedSkipConfig,
    [enable |-> TRUE, intro_time |-> 0, outro_time |-> 0],
    [enable |-> FALSE, intro_time |-> 90, outro_time |-> 0],
    [enable |-> FALSE, intro_time |-> 0, outro_time |-> 0 - 30] }
SourceNames == {"", "siteA", "siteB"}
ContentIds == {"", "id1"}
StoreKeys == (SourceNames \ {""}) \X (ContentIds \ {""})
NoSkipConfig == [absent |-> TRUE]
\* a configuration the user saved for the playing source
StoredSkipConfig == [enable |-> TRUE, intro_time |-> 90, outro_time |-> 0]
NoSkipCall == [tick |-> 0, op |-> "none", key |-> <<"", "">>,
               config |-> ClearedSkipConfig, ok |-> FALSE]

\* a test that looks at the two times only
AllClearedIgnoresEnable(cfg) == cfg.intro_time = 0 /\ cfg.outro_time = 0

\* !newConfig.enable && !newConfig.intro_time && !newConfig.outro_time
AllCleared(cfg) == ~cfg.enable /\ cfg.intro_time = 0 /\ cfg.outro_time = 0

\* deleteSkipConfig(source, id) and saveSkipConfig(source, id, config) of the
\* persistence client: the entry of that key is removed or replaced
DeleteSkipConfig(store, key) == [store EXCEPT ![key] = NoSkipConfig]
SaveSkipConfig(store, key, cfg) == [store EXCEPT ![key] = cfg]

\* handleSkipConfigChange(newConfig); ok tells whether the awaited persistence
\* call resolves (a rejection is caught and logged)
HandleSkipConfigChange(cfg, ok) ==
  /\ IF currentSourceRef = "" \/ currentIdRef = ""
     THEN UNCHANGED <<skipConfig, skipStore, skipCall>>
     ELSE /\ skipConfig' = cfg
          /\ skipCall' = [tick |-> 1 - skipCall.tick,
                          op |-> IF AllCleared(cfg) THEN "delete" ELSE "save",
                          key |-> <<currentSourceRef, currentIdRef>>,
                          config |-> cfg, ok |-> ok]
          /\ skipStore' =
               IF ~ok THEN skipStore
               ELSE IF AllCleared(cfg)
               THEN DeleteSkipConfig(skipStore, <<currentSourceRef, currentIdRef>>)
               ELSE SaveSkipConfig(skipStore, <<currentSourceRef, currentIdRef>>, cfg)
  /\ UNCHANGED <<currentSourceRef, currentIdRef>>
  /\ UNCHANGED <<selVars, filterVars, playerVars, otherThanSkipStore, hlsVars, mediaVars,
                 resumeVars, skipVars, now, episodeVars, progressVars, wakeVars>>

\* the effect that mirrors skipConfig into skipConfigRef
SkipConfigRefEffect ==
  /\ skipConfigRef # skipConfig
  /\ skipConfigRef' = skipConfig
  /\ UNCHANGED <<lastSkipCheckRef, skipStoreVars>>
  /\ UNCHANGED <<selVars, filterVars, playerVars, otherThanSkipStore, hlsVars, mediaVars,
                 resumeVars, now, episodeVars, progressVars, wakeVars>>

\* the effect that mirrors currentSource and currentId into their refs, after
\* the page set them (initialisation, source change)
SourceRefEffect(src, id) ==
  /\ <<src, id>> # <<currentSourceRef, currentIdRef>>
  /\ currentSourceRef' = src
  /\ currentIdRef' = id
  /\ UNCHANGED <<skipConfig, skipStore, skipCall>>
  /\ UNCHANGED <<selVars, filterVars, playerVars, otherThanSkipStore, hlsVars, mediaVars,
                 resumeVars, skipVars, now, episodeVars, progressVars, wakeVars>>

InitSkipStore ==
  /\ skipConfig = ClearedSkipConfig
  /\ currentSourceRef \in SourceNames /\ currentIdRef \in ContentIds
  /\ skipStore \in [StoreKeys -> {NoSkipConfig, [enable |-> TRUE, intro_time |-> 90,
                                                   outro_time |-> 0 - 30]}]
  /\ skipCall = NoSkipCall
RestSkipStore ==
  /\ skipConfig = ClearedSkipConfig
  /\ currentSourceRef = "siteA" /\ currentIdRef = "id1"
  /\ skipStore = [k \in StoreKeys |-> NoSkipConfig]
  /\ skipCall = NoSkipCall

NextSkipConfig ==
  \/ \E cfg \in NewSkipConfigs, ok \in BOOLEAN : HandleSkipConfigChange(cfg, ok)
  \/ SkipConfigRefEffect
  \/ \E src \in SourceNames, id \in ContentIds : SourceRefEffect(src, id)

\* ------------------------------------------------------------------------
\* fetchAdFilterCode: the override code, its cache and the server's version
\* ------------------------------------------------------------------------
ServerVersions == {1, 2, 3}
ServerCodes == {"", "returnsText", "returnsNonText", "throws"}
\* version.toString() and parseInt(cachedVersion) for the versions above
VersionToString(v) ==
  IF v = 1 THEN "1" ELSE IF v = 2 THEN "2" ELSE IF v = 3 THEN "3" ELSE "other"
ParseInt(str) ==
  IF str = "1" THEN 1 ELSE IF str = "2" THEN 2 ELSE IF str = "3" THEN 3 ELSE 0 - 1

\* a check that asks for the full code every time
NeedsFullCodeAlways(cachedVer, version) == TRUE

\* !cachedVersion || parseInt(cachedVersion) !== version
NeedsFullCode(cachedVer, version) == cachedVer = "" \/ ParseInt(cachedVer) # version

\* the mount effect calls fetchAdFilterCode: the cached code is put in use
\* and the version is requested
FetchAdFilterCode ==
  /\ adPc = "idle"
  /\ adPc' = "version"
  /\ customAdFilterCode' = IF cachedCode # "" THEN cachedCode ELSE customAdFilterCode
  /\ adOutcome' = "started"
  /\ UNCHANGED <<cachedCode, cachedVersion, serverVersion>>
  /\ UNCHANGED <<fType, fContent, fPc, fOut, fOut2>>
  /\ UNCHANGED <<selVars, playerVars, otherThanAdSync, hlsVars, mediaVars,
                 resumeVars, skipVars, now, episodeVars, progressVars, wakeVars>>

\* the version request fails: !versionResponse.ok, or fetch / json() rejects
VersionRequestFails ==
  /\ adPc = "version"
  /\ adPc' = "done"
  /\ adOutcome' = "versionFailed"
  /\ UNCHANGED <<cachedCode, cachedVersion, serverVersion>>
  /\ UNCHANGED <<selVars, filterVars, playerVars, otherThanAdSync, hlsVars,
                 mediaVars, resumeVars, skipVars, now, episodeVars, progressVars,
                 wakeVars>>

\* the version response arrives
VersionArrives(version) ==
  /\ adPc = "version"
  /\ serverVersion' = version
  /\ IF NeedsFullCode(cachedVersion, version)
     THEN adPc' = "full" /\ adOutcome' = "fullRequested"
     ELSE adPc' = "done" /\ adOutcome' = "upToDate"
  /\ UNCHANGED <<cachedCode, cachedVersion>>
  /\ UNCHANGED <<selVars, filterVars, playerVars, otherThanAdSync, hlsVars,
                 mediaVars, resumeVars, skipVars, now, episodeVars, progressVars,
                 wakeVars>>

\* the full-code request fails
FullRequestFails ==
  /\ adPc = "full"
  /\ adPc' = "done"
  /\ adOutcome' = "fullFailed"
  /\ UNCHANGED <<cachedCode, cachedVersion, serverVersion>>
  /\ UNCHANGED <<selVars, filterVars, playerVars, otherThanAdSync, hlsVars,
                 mediaVars, resumeVars, skipVars, now, episodeVars, progressVars,
                 wakeVars>>

\* the full-code response arrives
FullCodeArrives(code) ==
  /\ adPc = "full"
  /\ adPc' = "done"
  /\ IF code # ""
     THEN /\ cachedCode' = code
          /\ cachedVersion' = VersionToString(serverVersion)
          /\ customAdFilterCode' = code
          /\ adOutcome' = "updated"
     ELSE IF cachedCode = ""
     THEN /\ cachedCode' = ""
          /\ cachedVersion' = ""
          /\ adOutcome' = "cleared"
          /\ UNCHANGED customAdFilterCode
     ELSE /\ adOutcome' = "noServerCode"
          /\ UNCHANGED <<cachedCode, cachedVersion, customAdFilterCode>>
  /\ UNCHANGED serverVersion
  /\ UNCHANGED <<fType, fContent, fPc, fOut, fOut2>>
  /\ UNCHANGED <<selVars, playerVars, otherThanAdSync, hlsVars, mediaVars,
                 resumeVars, skipVars, now, episodeVars, progressVars, wakeVars>>

\* the page is opened again: a new customAdFilterCodeRef, the same localStorage
PageReopened ==
  /\ adPc = "done"
  /\ adPc' = "idle"
  /\ customAdFilterCode' = ""
  /\ serverVersion' = 0
  /\ adOutcome' = "none"
  /\ UNCHANGED <<cachedCode, cachedVersion>>
  /\ UNCHANGED <<fType, fContent, fPc, fOut, fOut2>>
  /\ UNCHANGED <<selVars, playerVars, otherThanAdSync, hlsVars, mediaVars,
                 resumeVars, skipVars, now, episodeVars, progressVars, wakeVars>>

\* the cache as an earlier run of fetchAdFilterCode left it
InitAdSync ==
  /\ adPc = "idle" /\ serverVersion = 0 /\ adOutcome = "none"
  /\ cachedCode \in {"", "returnsText", "returnsNonText"}
  /\ cachedVersion \in IF cachedCode = "" THEN {""} ELSE {"1", "2", "3"}
RestAdSync ==
  /\ adPc = "rest" /\ serverVersion = 0 /\ adOutcome = "none"
  /\ cachedCode = "" /\ cachedVersion = ""

NextAdSync ==
  \/ FetchAdFilterCode
  \/ VersionRequestFails
  \/ \E v \in ServerVersions : VersionArrives(v)
  \/ FullRequestFails
  \/ \E code \in ServerCodes : FullCodeArrives(code)
  \/ PageReopened

\* ------------------------------------------------------------------------
\* initAll: the play record of the chosen source is looked up
\* ------------------------------------------------------------------------
\* what getAllPlayRecords()[key] gives: the call rejects, no record of the
\* key, or a record (index is 1-based)
LoadOutcomes ==
  { [kind |-> "failed", index |-> 0, play_time |-> 0],
    [kind |-> "absent", index |-> 0, play_time |-> 0],
    [kind |-> "found", index |-> 1, play_time |-> 30],
    [kind |-> "found", index |-> 2, play_time |-> 30],
    [kind |-> "found", index |-> 5, play_time |-> 0] }

\* a load that answers a failure with position 0
ResumeAfterRecordLoadZero(o, prev) == IF o.kind = "found" THEN o.play_time ELSE 0

\* resumeTimeRef.current after the try/catch around the record lookup
ResumeAfterRecordLoad(o, prev) == IF o.kind = "found" THEN o.play_time ELSE prev

\* targetIndex = record.index - 1 is taken when it is an episode of the source
IndexAfterRecordLoad(o, prev, len) ==
  IF o.kind = "found" /\ o.index - 1 < len /\ o.index - 1 >= 0
  THEN o.index - 1 ELSE prev

\* initAll: await getAllPlayRecords() and the statements that follow it
LoadPlayRecords(o) ==
  /\ recordsLoad = "pending"
  /\ recordsLoad' = o.kind
  /\ resumeTimeRef' = ResumeAfterRecordLoad(o, resumeTimeRef)
  /\ resumeFor' = IF o.kind = "found" THEN o.index - 1 ELSE resumeFor
  /\ seeksSinceSet' = 0
  /\ currentEpisodeIndex' = IndexAfterRecordLoad(o, currentEpisodeIndex, episodesLen)
  /\ currentEpisodeIndexRef' =
       IndexAfterRecordLoad(o, currentEpisodeIndexRef, episodesLen)
  /\ UNCHANGED episodesLen
  /\ UNCHANGED <<teardownVars, skipStoreVars, adSyncVars, sourceVars, flushVars,
                 laterButResumeFor>>
  /\ UNCHANGED <<selVars, filterVars, playerVars, hlsVars, mediaVars,
                 skipVars, now, progressVars, wakeVars>>

NextPersist ==
  \/ \E o \in LoadOutcomes : LoadPlayRecords(o)
  \/ FinishLoading
  \/ \E u \in VideoUrls : SetVideoUrl(u)
  \/ PlayerInitEffect
  \/ InitPlayerResumes
  \/ \E d \in Durations : MediaLoaded(d)
  \/ \E p \in Positions : TimeAdvances(p)
  \/ CanPlay
  \/ PlayEvent
  \/ PauseEvent
  \/ SaveSettles
  \/ SaveFails

\* ------------------------------------------------------------------------
\* Episode address: updateVideoUrl, handleSourceChange
\* ------------------------------------------------------------------------
\* availableSources, by source name, and the episodes array of each entry; a
\* requested source may have left the list
AvailableSources == {"siteA", "siteB"}
RequestedSources == AvailableSources \cup {"siteC"}
EpisodesOf(src) ==
  CASE src = "siteA" -> <<"ep1.m3u8">>
    [] src = "siteB" -> <<"alt1.m3u8", "alt2.m3u8">>
    [] src = "siteS" -> <<"s1.m3u8", "s2.m3u8", "s3.m3u8">>
    [] OTHER -> <<>>
SourceChangeOutcomes == {"ok", "recordDeleteFails", "deleteFails", "saveFails"}
NoSourceChange == [target |-> "", index |-> 0, playTime |-> 0]

\* updateVideoUrl(detailData, episodeIndex): the address it leaves in videoUrl
UpdateVideoUrl(d, idx) ==
  IF d = "" \/ idx >= Len(EpisodesOf(d)) THEN ""
  ELSE IF idx < 0 THEN ""
  ELSE EpisodesOf(d)[idx + 1]

\* the effect on [detail, currentEpisodeIndex] calls updateVideoUrl; setVideoUrl
\* with the address already set changes nothing
UpdateVideoUrlEffect ==
  /\ UpdateVideoUrl(detail, currentEpisodeIndex) # videoUrl
  /\ videoUrl' = UpdateVideoUrl(detail, currentEpisodeIndex)
  /\ effectDue' = TRUE
  /\ UNCHANGED <<loading, blockAdEnabled, isWebkit, artPlayerRef, alive, created,
                 pendingInits, switched>>
  /\ UNCHANGED <<selVars, filterVars, sessionVars>>

\* targetIndex of handleSourceChange: idx is the currentEpisodeIndex of the
\* render the handler was made in, len the episode count of the new source
SourceChangeTargetIndex(idx, len) == IF idx >= len THEN 0 ELSE idx

\* resumeTimeRef.current after handleSourceChange
ResumeAfterSourceChange(target, idx, resume, playTime) ==
  IF target # idx THEN 0
  ELSE IF (resume = Null \/ resume = 0) /\ playTime > 1 THEN playTime
  ELSE resume

\* handleSourceChange(src, id, title) up to its awaited persistence calls: the
\* call holds currentEpisodeIndex of its render and the play position it read
BeginSourceChange(src) ==
  /\ sourceChange = NoSourceChange
  /\ detail # ""
  /\ sourceChange' = [target |-> src, index |-> currentEpisodeIndex,
                      playTime |-> IF artPlayerRef # 0 THEN currentTime ELSE 0]
  /\ UNCHANGED detail
  /\ UNCHANGED <<selVars, filterVars, playerVars, otherThanSource, hlsVars, mediaVars,
                 resumeVars, skipVars, now, episodeVars, progressVars, wakeVars>>

\* the skip configurations after the awaited deleteSkipConfig / saveSkipConfig
\* pair of handleSourceChange; a rejection is caught and logged; skipStore
\* follows the keys of StoreKeys only
SkipStoreAfterSourceChange(store, src, outcome) ==
  IF currentSourceRef = "" \/ currentIdRef = "" \/ outcome = "deleteFails" THEN store
  ELSE IF outcome = "saveFails" \/ <<src, currentIdRef>> \notin StoreKeys
  THEN DeleteSkipConfig(store, <<currentSourceRef, currentIdRef>>)
  ELSE SaveSkipConfig(DeleteSkipConfig(store, <<currentSourceRef, currentIdRef>>),
                      <<src, currentIdRef>>, skipConfigRef)

\* the progress record after the awaited deletePlayRecord of handleSourceChange,
\* which runs before the requested source is looked up; a rejection is caught
PlayRecordAfterSourceChange(rec, outcome) ==
  IF currentSourceRef = "" \/ currentIdRef = "" \/ outcome = "recordDeleteFails" THEN rec
  ELSE NoRecord

\* handleSourceChange after its awaits; the refs of source, detail and episode
\* index are mirrored by the effect of the commit that follows
CompleteSourceChange(outcome) ==
  /\ sourceChange # NoSourceChange
  /\ sourceChange' = NoSourceChange
  /\ skipStore' = SkipStoreAfterSourceChange(skipStore, sourceChange.target, outcome)
  /\ playRecord' = PlayRecordAfterSourceChange(playRecord, outcome)
  /\ IF sourceChange.target \notin AvailableSources
     THEN /\ error' = "notFound"
          /\ UNCHANGED <<detail, currentEpisodeIndex, currentEpisodeIndexRef, episodesLen,
                         resumeTimeRef, resumeFor, seeksSinceSet, currentSourceRef>>
     ELSE LET len == Len(EpisodesOf(sourceChange.target))
              targetIndex == SourceChangeTargetIndex(sourceChange.index, len)
              resume == ResumeAfterSourceChange(targetIndex, sourceChange.index,
                                                resumeTimeRef, sourceChange.playTime)
          IN /\ resumeTimeRef' = resume
             /\ resumeFor' = IF resume = resumeTimeRef THEN resumeFor
                             ELSE IF resume = 0 THEN Null ELSE sourceChange.index
             /\ seeksSinceSet' = IF resume = resumeTimeRef THEN seeksSinceSet ELSE 0
             /\ detail' = sourceChange.target
             /\ currentEpisodeIndex' = targetIndex
             /\ currentEpisodeIndexRef' = targetIndex
             /\ episodesLen' = len
             /\ currentSourceRef' = sourceChange.target
             /\ UNCHANGED error
  /\ UNCHANGED <<skipConfig, currentIdRef, skipCall>>
  /\ UNCHANGED <<blockAdEnabledRef, hls, lastLoad, fatalRun>>
  /\ UNCHANGED <<metaReady, storageType, savePending, lastSaveTimeRef, lastTrigger>>
  /\ UNCHANGED <<selVars, filterVars, playerVars, teardownVars, adSyncVars, initVars,
                 flushVars, laterButResumeFor, mediaVars, skipVars, now, wakeVars>>

InitSource ==
  /\ detail \in AvailableSources
  /\ sourceChange = NoSourceChange
  /\ episodesLen = Len(EpisodesOf(detail))
  /\ currentEpisodeIndex \in 0..(episodesLen - 1)
  /\ currentEpisodeIndexRef = currentEpisodeIndex
  /\ videoUrl = UpdateVideoUrl(detail, currentEpisodeIndex)
  /\ currentSourceRef = detail /\ currentIdRef = "id1"

NextSource ==
  \/ \E src \in RequestedSources : BeginSourceChange(src)
  \/ \E o \in SourceChangeOutcomes : CompleteSourceChange(o)
  \/ UpdateVideoUrlEffect
  \/ EpisodeRefEffect
  \/ \E n \in 0..2 : HandleEpisodeChange(n)
  \/ HandlePreviousEpisode
  \/ HandleNextEpisode

\* ------------------------------------------------------------------------
\* POST /api/admin/openlist
\* ------------------------------------------------------------------------
\* process.env.USERNAME and adminConfig.UserConfig.Users
OwnerName == "owner"
UserEntries ==
  [u \in {"admin1", "banned1", "user1"} |->
     [role |-> IF u = "user1" THEN "user" ELSE "admin", banned |-> u = "banned1"]]
\* authInfo.username of the cookie, "" when there is none
AuthNames == {"", "owner", "admin1", "banned1", "user1", "ghost"}
Actions == {"save", "refresh"}
\* URL, Username, Password of the body, "" when missing
Credentials ==
  { [URL |-> "http://ol", Username |-> "u", Password |-> "p"],
    [URL |-> "", Username |-> "u", Password |-> "p"],
    [URL |-> "http://ol", Username |-> "", Password |-> "p"],
    [URL |-> "http://ol", Username |-> "u", Password |-> ""] }
\* ScanInterval of the body as parseInt reads it: an optional minus sign, the
\* leading decimal digits, and whether other characters follow ("90min",
\* "59.5", "abc", undefined)
ScanDigits == { <<>>, <<0>>, <<5>>, <<5, 9>>, <<6, 0>>, <<1, 2, 0>> }
ScanInputs ==
  { [neg |-> n, digits |-> d, junk |-> j] :
      n \in BOOLEAN, d \in ScanDigits, j \in BOOLEAN }
RootPaths == {"", "/media"}
Requests ==
  [user : AuthNames, action : Actions, cred : Credentials, scan : ScanInputs,
   root : RootPaths]

NoOpenList == [set |-> FALSE]
OldOpenList ==
  [set |-> TRUE, URL |-> "http://old", Username |-> "old", Password |-> "old",
   RootPath |-> "/", LastRefreshTime |-> 1000, ResourceCount |-> 7, ScanInterval |-> 0]
NoRequest == [stage |-> "idle", status |-> 0]

\* the decimal value of a digit sequence
RECURSIVE DigitsValue(_)
DigitsValue(ds) ==
  IF ds = <<>> THEN 0 ELSE 10 * DigitsValue(SubSeq(ds, 1, Len(ds) - 1)) + ds[Len(ds)]

\* parseInt(ScanInterval): NaN without a leading digit, else the signed value
\* of the leading digits
ParseIntScan(raw) ==
  IF raw.digits = <<>> THEN [nan |-> TRUE, value |-> 0]
  ELSE [nan |-> FALSE,
        value |-> IF raw.neg THEN 0 - DigitsValue(raw.digits) ELSE DigitsValue(raw.digits)]

\* parseInt(ScanInterval) || 0
ScanIntervalOf(raw) ==
  IF ParseIntScan(raw).nan \/ ParseIntScan(raw).value = 0 THEN 0
  ELSE ParseIntScan(raw).value

\* scanInterval > 0 && scanInterval < 60
ScanIntervalRejected(n) == n > 0 /\ n < MinScanInterval

\* permission for every entry of the user list
HasPermissionAnyEntry(u) == u = OwnerName \/ u \in DOMAIN UserEntries

\* the permission check: the owner, or an entry with role admin that is not
\* banned
HasPermission(u) ==
  \/ u = OwnerName
  \/ (u \in DOMAIN UserEntries /\ UserEntries[u].role = "admin" /\ ~UserEntries[u].banned)

\* the response status of the checks made before the login, 0 when all pass
StatusBeforeLogin(storage, req) ==
  IF storage = "localstorage" THEN 400
  ELSE IF req.user = "" THEN 401
  ELSE IF ~HasPermission(req.user) THEN 401
  ELSE IF req.action # "save" THEN 400
  ELSE IF req.cred.URL = "" \/ req.cred.Username = "" \/ req.cred.Password = "" THEN 400
  ELSE IF ScanIntervalRejected(ScanIntervalOf(req.scan)) THEN 400
  ELSE 0

\* the value assigned to adminConfig.OpenListConfig
NewOpenListConfig(old, req) ==
  [set |-> TRUE, URL |-> req.cred.URL, Username |-> req.cred.Username,
   Password |-> req.cred.Password,
   RootPath |-> IF req.root = "" THEN "/" ELSE req.root,
   LastRefreshTime |-> IF old.set THEN old.LastRefreshTime ELSE 0,
   ResourceCount |-> IF old.set THEN old.ResourceCount ELSE 0,
   ScanInterval |-> ScanIntervalOf(req.scan)]

\* POST up to the await of OpenListClient.login, or to its early response
PostArrives(req) ==
  /\ olReq.stage = "idle"
  /\ olReq' = IF StatusBeforeLogin(storageType, req) = 0
              THEN [stage |-> "login", status |-> 0, req |-> req, login |-> "none"]
              ELSE [stage |-> "done", status |-> StatusBeforeLogin(storageType, req),
                    req |-> req, login |-> "none"]
  /\ UNCHANGED olConfig
  /\ UNCHANGED <<selVars, filterVars, playerVars, otherThanOl, hlsVars, mediaVars,
                 resumeVars, skipVars, now, episodeVars, progressVars, wakeVars>>

\* OpenListClient.login settles: a rejection is answered with 400
LoginSettles(ok) ==
  /\ olReq.stage = "login"
  /\ olReq' = IF ok THEN [olReq EXCEPT !.stage = "save", !.login = "ok"]
              ELSE [olReq EXCEPT !.stage = "done", !.status = 400, !.login = "failed"]
  /\ UNCHANGED olConfig
  /\ UNCHANGED <<selVars, filterVars, playerVars, otherThanOl, hlsVars, mediaVars,
                 resumeVars, skipVars, now, episodeVars, progressVars, wakeVars>>

\* db.saveAdminConfig settles: the configuration is stored, or the outer catch
\* answers 500
SaveAdminConfigSettles(ok) ==
  /\ olReq.stage = "save"
  /\ IF ok
     THEN /\ olConfig' = NewOpenListConfig(olConfig, olReq.req)
          /\ olReq' = [olReq EXCEPT !.stage = "done", !.status = 200]
     ELSE /\ olReq' = [olReq EXCEPT !.stage = "done", !.status = 500]
          /\ UNCHANGED olConfig
  /\ UNCHANGED <<selVars, filterVars, playerVars, otherThanOl, hlsVars, mediaVars,
                 resumeVars, skipVars, now, episodeVars, progressVars, wakeVars>>

\* the response has been returned: the handler holds nothing of the request
ResponseReturned ==
  /\ olReq.stage = "done"
  /\ olReq' = NoRequest
  /\ UNCHANGED olConfig
  /\ UNCHANGED <<selVars, filterVars, playerVars, otherThanOl, hlsVars, mediaVars,
                 resumeVars, skipVars, now, episodeVars, progressVars, wakeVars>>

NextOpenList ==
  \/ \E req \in Requests : PostArrives(req)
  \/ \E ok \in BOOLEAN : LoginSettles(ok)
  \/ \E ok \in BOOLEAN : SaveAdminConfigSettles(ok)
  \/ ResponseReturned

\* ------------------------------------------------------------------------
\* danmaku cache
\* ------------------------------------------------------------------------
MinuteMs == 60 * 1000
DmEpisodeIds == {1, 2}
DmComments == { <<"c1">>, <<"c1", "c2">> }
\* the environment value: not set (or empty), or a text as parseInt reads it
NoEnvValue == [set |-> FALSE]
DmEnvValues ==
  { NoEnvValue,
    [set |-> TRUE, neg |-> FALSE, digits |-> <<0>>, junk |-> FALSE],
    [set |-> TRUE, neg |-> FALSE, digits |-> <<1>>, junk |-> FALSE],
    [set |-> TRUE, neg |-> TRUE, digits |-> <<5>>, junk |-> FALSE],
    [set |-> TRUE, neg |-> FALSE, digits |-> <<>>, junk |-> TRUE] }
NoEntry == [absent |-> TRUE]
NoDmCall == [stage |-> "idle"]
DmOutcomes == {"ok", "openFails", "requestFails"}

\* a reading of the environment value that treats 0 like any other
\* non-positive number
ExpireTimeZeroAsDefault(hasWindow, env) ==
  IF ~hasWindow \/ ~env.set THEN DefaultExpireMinutes * MinuteMs
  ELSE IF ~ParseIntScan(env).nan /\ ParseIntScan(env).value > 0
       THEN ParseIntScan(env).value * MinuteMs
       ELSE DefaultExpireMinutes * MinuteMs

\* getDanmakuCacheExpireTime
GetDanmakuCacheExpireTime(hasWindow, env) ==
  IF ~hasWindow \/ ~env.set THEN DefaultExpireMinutes * MinuteMs
  ELSE IF ~ParseIntScan(env).nan /\ ParseIntScan(env).value = 0 THEN 0
  ELSE IF ~ParseIntScan(env).nan /\ ParseIntScan(env).value > 0
       THEN ParseIntScan(env).value * MinuteMs
       ELSE DefaultExpireMinutes * MinuteMs

\* what the onsuccess handler of objectStore.get resolves with
CacheLookup(entry, t, expireTime) ==
  IF entry = NoEntry THEN [served |-> FALSE]
  ELSE IF t - entry.timestamp > expireTime THEN [served |-> FALSE]
  ELSE [served |-> TRUE, comments |-> entry.comments]

\* saveDanmakuToCache up to its await of openDB
SaveDanmakuToCache(id, comments) ==
  /\ dmSave.stage # "open"
  /\ dmSave' = IF GetDanmakuCacheExpireTime(dmWindow, dmEnv) = 0
               THEN [stage |-> "skipped", episodeId |-> id, comments |-> comments]
               ELSE [stage |-> "open", episodeId |-> id, comments |-> comments]
  /\ UNCHANGED <<dmWindow, dmEnv, dmStore, dmGet>>
  /\ UNCHANGED <<selVars, filterVars, playerVars, hlsVars, mediaVars, resumeVars, skipVars,
                 now, episodeVars, progressVars, wakeVars, otherThanDm>>

\* openDB and the put request settle; without a window there is no indexedDB
SaveDanmakuSettles(outcome) ==
  /\ dmSave.stage = "open"
  /\ (~dmWindow => outcome = "openFails")
  /\ dmStore' = IF outcome = "ok"
                THEN [dmStore EXCEPT ![dmSave.episodeId] =
                        [comments |-> dmSave.comments, timestamp |-> now]]
                ELSE dmStore
  /\ dmSave' = [dmSave EXCEPT !.stage = IF outcome = "ok" THEN "stored" ELSE "rejected"]
  /\ UNCHANGED <<dmWindow, dmEnv, dmGet>>
  /\ UNCHANGED <<selVars, filterVars, playerVars, hlsVars, mediaVars, resumeVars, skipVars,
                 now, episodeVars, progressVars, wakeVars, otherThanDm>>

\* getDanmakuFromCache up to its await of openDB
GetDanmakuFromCache(id) ==
  /\ dmGet.stage # "open"
  /\ dmGet' = IF GetDanmakuCacheExpireTime(dmWindow, dmEnv) = 0
              THEN [stage |-> "done", episodeId |-> id, outcome |-> "disabled",
                    result |-> [served |-> FALSE]]
              ELSE [stage |-> "open", episodeId |-> id]
  /\ UNCHANGED <<dmWindow, dmEnv, dmStore, dmSave>>
  /\ UNCHANGED <<selVars, filterVars, playerVars, hlsVars, mediaVars, resumeVars, skipVars,
                 now, episodeVars, progressVars, wakeVars, otherThanDm>>

\* openDB and the get request settle: a failure of openDB is caught and gives
\* null, a failed request rejects
GetDanmakuSettles(outcome) ==
  /\ dmGet.stage = "open"
  /\ (~dmWindow => outcome = "openFails")
  /\ dmGet' =
       IF outcome = "requestFails"
       THEN [stage |-> "rejected", episodeId |-> dmGet.episodeId]
       ELSE [stage |-> "done", episodeId |-> dmGet.episodeId, outcome |-> outcome,
             result |-> IF outcome = "openFails" THEN [served |-> FALSE]
                        ELSE CacheLookup(dmStore[dmGet.episodeId], now,
                                         GetDanmakuCacheExpireTime(dmWindow, dmEnv))]
  /\ UNCHANGED <<dmWindow, dmEnv, dmStore, dmSave>>
  /\ UNCHANGED <<selVars, filterVars, playerVars, hlsVars, mediaVars, resumeVars, skipVars,
                 now, episodeVars, progressVars, wakeVars, otherThanDm>>

\* Date.now() moves on by minutes or by the default expiry
DmClockAdvances(d) ==
  /\ \/ d = MinuteMs /\ (now - StartNow) % (DefaultExpireMinutes * MinuteMs)
                          < MaxDmMinutes * MinuteMs
     \/ d = DefaultExpireMinutes * MinuteMs
        /\ (now - StartNow) \div (DefaultExpireMinutes * MinuteMs) < MaxDmJumps
  /\ now' = now + d
  /\ UNCHANGED <<selVars, filterVars, pageVars, playerVars, hlsVars, mediaVars, resumeVars,
                 skipVars, episodeVars, progressVars, wakeVars>>

NextDm ==
  \/ \E id \in DmEpisodeIds, c \in DmComments : SaveDanmakuToCache(id, c)
  \/ \E o \in DmOutcomes : SaveDanmakuSettles(o)
  \/ \E id \in DmEpisodeIds : GetDanmakuFromCache(id)
  \/ \E o \in DmOutcomes : GetDanmakuSettles(o)
  \/ \E d \in {MinuteMs, DefaultExpireMinutes * MinuteMs} : DmClockAdvances(d)


InitMedia ==
  /\ currentTime = 0 /\ duration = 0 /\ paused = FALSE /\ lastSeeks = <<>>
InitEpisodes ==
  /\ episodesLen \in EpisodesLens
  /\ currentEpisodeIndex \in 0..(episodesLen - 1)
  /\ currentEpisodeIndexRef = currentEpisodeIndex
InitProgress ==
  /\ metaReady \in BOOLEAN /\ storageType \in StorageTypes
  /\ playRecord = NoRecord /\ savePending = FALSE
  /\ lastSaveTimeRef = 0 /\ lastTrigger = "none"
InitWake ==
  /\ wakeLockRef = 0 /\ wlHeld = {} /\ wlGranted = 0
  /\ wlRequesting = FALSE /\ wlReleasing = FALSE
InitSkipState ==
  /\ skipConfigRef \in SkipConfigs /\ lastSkipCheckRef = 0

NextSkip ==
  \/ Tick
  \/ \E d \in Durations : MediaLoaded(d)
  \/ \E p \in Positions : TimeAdvances(p)
  \/ EpisodeRefEffect
  \/ TimeUpdateSkip

NextProgress ==
  \/ \E d \in Durations : MediaLoaded(d)
  \/ \E p \in Positions : TimeAdvances(p)
  \/ PlayEvent
  \/ PauseEvent
  \/ TimeUpdateSave
  \/ VisibilityHidden
  \/ VisibilityVisible
  \/ BeforeUnload
  \/ \E n \in 0..2 : HandleEpisodeChange(n)
  \/ HandlePreviousEpisode
  \/ HandleNextEpisode
  \/ EpisodeRefEffect
  \/ SaveSettles
  \/ SaveFails

NextWake ==
  \/ \E d \in Durations : MediaLoaded(d)
  \/ \E p \in Positions : TimeAdvances(p)
  \/ PlayEvent
  \/ PauseEvent
  \/ VisibilityHidden
  \/ VisibilityVisible
  \/ WakeLockGranted
  \/ WakeLockRejected
  \/ ReleaseResumes


\* ------------------------------------------------------------------------
\* Specifications
\* ------------------------------------------------------------------------
\* the parts a specification leaves at rest
RestSel ==
  /\ sources = <<>> /\ selPc = "rest" /\ start = 0 /\ batchResults = << >>
  /\ pending = {} /\ allResults = <<>> /\ precomputedVideoInfo = << >>
  /\ setInfoCalls = 0 /\ probesStarted = {} /\ settled = {} /\ selReturn = NotReturned
RestFilter ==
  /\ customAdFilterCode = "" /\ fType = "other" /\ fContent = EmptyText
  /\ fPc = "rest" /\ fOut = Text(EmptyText) /\ fOut2 = Text(EmptyText)
RestPlayer ==
  /\ videoUrl = "" /\ loading = TRUE /\ blockAdEnabled = TRUE /\ isWebkit = FALSE
  /\ artPlayerRef = 0 /\ alive = {} /\ created = 0 /\ pendingInits = 0
  /\ effectDue = FALSE /\ switched = 0

RestMedia ==
  /\ currentTime = 0 /\ duration = 0 /\ paused = TRUE /\ lastSeeks = <<>>
RestResume == resumeTimeRef = Null /\ seeksSinceSet = 0
RestSkip ==
  /\ skipConfigRef = [enable |-> FALSE, intro_time |-> 0, outro_time |-> 0]
  /\ lastSkipCheckRef = 0
RestClock == now = StartNow
RestEpisodes ==
  /\ currentEpisodeIndex = 0 /\ currentEpisodeIndexRef = 0 /\ episodesLen = 1
RestProgress ==
  /\ metaReady = TRUE /\ storageType = "localstorage"
  /\ playRecord = NoRecord /\ savePending = FALSE
  /\ lastSaveTimeRef = 0 /\ lastTrigger = "none"
NoCleanup == [tick |-> 0, had |-> FALSE, fault |-> "none", threw |-> FALSE]
NoTeardown == [tick |-> 0, path |-> "none"]
RestTeardown == cleanupLog = NoCleanup /\ teardownLog = NoTeardown
RestInit == recordsLoad = "rest"
RestSource == detail = "siteA" /\ sourceChange = NoSourceChange
NoFlush == 0 - 1
RestFlush == timeUpdateFlushAt = NoFlush
RestA4k ==
  /\ isFirefox = FALSE /\ anime4kRef = NoAnime4K /\ a4kInit = NoA4kInit
  /\ frames = {} /\ rafIssued = 0 /\ a4kCleaned = {}
RestOl == olConfig = NoOpenList /\ olReq = NoRequest
RestDm ==
  /\ dmWindow = TRUE /\ dmEnv = NoEnvValue /\ dmStore = [e \in DmEpisodeIds |-> NoEntry]
  /\ dmSave = NoDmCall /\ dmGet = NoDmCall
RestResumeFor == resumeFor = Null
RestStream == playerUrl = videoUrl
RestAutoNext == endedTimers = {}
RestComment ==
  /\ currentDanmakuSelection = Null /\ danmakuTrack = 0 /\ danmakuLoads = {}
  /\ danmakuLoadSeq = 0 /\ danmakuEffectIndex = currentEpisodeIndex
RestTail == RestDm /\ RestResumeFor /\ RestStream /\ RestAutoNext /\ RestComment
RestLater == RestA4k /\ RestOl /\ RestTail
RestExtra ==
  /\ RestSkipStore /\ RestAdSync /\ RestInit /\ RestSource /\ RestFlush /\ RestLater
RestPage == RestTeardown /\ RestExtra
RestCore ==
  /\ InitHls /\ RestMedia /\ RestResume /\ RestSkip /\ RestClock
  /\ RestEpisodes /\ RestProgress /\ InitWake
RestSession == RestCore /\ RestPage

Init == RestSel /\ RestFilter /\ InitPlayerState /\ RestSession
Next == NextPlayer
Spec == Init /\ [][Next]_vars

InitSelect == InitSel /\ RestFilter /\ RestPlayer /\ RestSession
NextSelect == NextSel
SpecSelect == InitSelect /\ [][NextSelect]_vars

InitAdFilter == RestSel /\ InitFilter /\ RestPlayer /\ RestSession
NextAdFilter == NextFilter
SpecAdFilter == InitAdFilter /\ [][NextAdFilter]_vars

\* the decoder of a mounted player
InitHlsSpec ==
  /\ RestSel /\ RestFilter /\ PlayerPresent /\ InitHls
  /\ RestMedia /\ RestResume /\ RestSkip /\ RestClock /\ RestEpisodes
  /\ RestProgress /\ InitWake /\ RestPage
SpecHls == InitHlsSpec /\ [][NextHls]_vars

\* can-play resume of a mounted player
InitResumeSpec ==
  /\ RestSel /\ RestFilter /\ PlayerPresent /\ InitHls
  /\ InitResume /\ RestSkip /\ RestClock /\ RestEpisodes
  /\ RestProgress /\ InitWake /\ RestPage
SpecResume == InitResumeSpec /\ [][NextResume]_vars

\* the skip listener of a mounted player
InitSkipSpec ==
  /\ RestSel /\ RestFilter /\ PlayerPresent /\ InitHls
  /\ InitMedia /\ RestResume /\ InitSkipState /\ RestClock /\ InitEpisodes
  /\ RestProgress /\ InitWake /\ RestPage
SpecSkip == InitSkipSpec /\ [][NextSkip]_vars

\* the triggers of saveCurrentPlayProgress
InitProgressSpec ==
  /\ RestSel /\ RestFilter /\ PlayerPresent /\ InitHls
  /\ InitMedia /\ RestResume /\ RestSkip /\ RestClock /\ InitEpisodes
  /\ InitProgress /\ InitWake /\ RestPage
SpecProgress == InitProgressSpec /\ [][NextProgress]_vars

\* play, pause and visibility events with the wake lock
InitWakeSpec ==
  /\ RestSel /\ RestFilter /\ PlayerPresent /\ InitHls
  /\ InitMedia /\ RestResume /\ RestSkip /\ RestClock /\ RestEpisodes
  /\ RestProgress /\ InitWake /\ RestPage
SpecWake == InitWakeSpec /\ [][NextWake]_vars

\* the skip configuration of a mounted player and its persistence
InitSkipConfigSpec ==
  /\ RestSel /\ RestFilter /\ PlayerPresent /\ InitHls
  /\ RestMedia /\ RestResume /\ RestSkip /\ RestClock /\ RestEpisodes
  /\ RestProgress /\ InitWake /\ RestTeardown /\ InitSkipStore /\ RestAdSync /\ RestInit
  /\ RestSource /\ RestFlush /\ RestLater
SpecSkipConfig == InitSkipConfigSpec /\ [][NextSkipConfig]_vars

\* the override code of a page that is opened, and opened again
InitAdSyncSpec ==
  /\ RestSel /\ RestPlayer /\ RestCore /\ RestTeardown /\ RestSkipStore /\ InitAdSync
  /\ RestInit /\ RestSource /\ RestFlush /\ RestLater
  /\ customAdFilterCode = "" /\ fType = "other" /\ fContent = EmptyText
  /\ fPc = "rest" /\ fOut = Text(EmptyText) /\ fOut2 = Text(EmptyText)
SpecAdSync == InitAdSyncSpec /\ [][NextAdSync]_vars

\* a page from the record lookup of initAll to a playing player that saves
InitPersistSpec ==
  /\ RestSel /\ RestFilter /\ RestPlayer /\ InitHls
  /\ RestMedia /\ RestResume /\ RestSkip /\ RestClock /\ InitEpisodes
  /\ RestProgress /\ InitWake /\ RestTeardown /\ RestSkipStore /\ RestAdSync
  /\ recordsLoad = "pending" /\ RestSource /\ RestFlush /\ RestLater
SpecPersist == InitPersistSpec /\ [][NextPersist]_vars

\* the paths that end the session of a mounted player, on either platform
NextTeardown ==
  \/ CreateHls
  \/ ReleaseResumes
  \/ SetEpisodeOrDetail
  \/ PlayerInitEffect
  \/ ToggleBlockAd
  \/ BeforeUnload
  \/ Unmount
InitTeardownSpec ==
  /\ RestSel /\ RestFilter
  /\ videoUrl = "ep1.m3u8" /\ loading = FALSE /\ blockAdEnabled = TRUE
  /\ isWebkit \in BOOLEAN
  /\ artPlayerRef = 1 /\ alive = {1} /\ created = 1 /\ pendingInits = 0
  /\ effectDue = FALSE /\ switched = 0
  /\ InitHls /\ RestResume /\ RestSkip /\ RestClock /\ RestEpisodes
  /\ currentTime = 30 /\ duration = 1200 /\ paused = FALSE /\ lastSeeks = <<>>
  /\ RestProgress /\ RestPage
  /\ wakeLockRef \in {0, 1} /\ wlHeld = {wakeLockRef} \ {0} /\ wlGranted = wakeLockRef
  /\ wlRequesting = FALSE /\ wlReleasing = FALSE
SpecTeardown == InitTeardownSpec /\ [][NextTeardown]_vars

\* a mounted player whose source and episode the user changes
InitSourceSpec ==
  /\ RestSel /\ RestFilter /\ InitSource
  /\ loading = FALSE /\ blockAdEnabled = TRUE /\ isWebkit = FALSE
  /\ artPlayerRef = 1 /\ alive = {1} /\ created = 1 /\ pendingInits = 0
  /\ effectDue = FALSE /\ switched = 0
  /\ InitHls /\ RestClock /\ InitWake
  /\ currentTime \in {0, 30} /\ duration = 1200 /\ paused = FALSE /\ lastSeeks = <<>>
  /\ resumeTimeRef \in {Null, 50} /\ seeksSinceSet = 0
  /\ RestTeardown /\ RestAdSync /\ RestInit /\ RestFlush
  /\ RestA4k /\ RestOl /\ RestDm /\ RestStream /\ RestAutoNext /\ RestComment
  /\ resumeFor = (IF resumeTimeRef = Null THEN Null ELSE currentEpisodeIndex)
  /\ metaReady = TRUE /\ storageType = "localstorage" /\ savePending = FALSE
  /\ lastSaveTimeRef = 0 /\ lastTrigger = "none"
  /\ playRecord = SavedRecord(currentEpisodeIndex, 30, 1200)
  /\ skipConfig = StoredSkipConfig /\ skipConfigRef = StoredSkipConfig
  /\ lastSkipCheckRef = 0 /\ skipCall = NoSkipCall
  /\ skipStore = [k \in StoreKeys |->
                    IF k = <<detail, "id1">> THEN StoredSkipConfig ELSE NoSkipConfig]
SpecSource == InitSourceSpec /\ [][NextSource]_vars

\* the two time-update listeners of a mounted player over tens of seconds
NextFlushLimit ==
  \/ LongTick
  \/ TimeUpdateSave
  \/ TimeUpdateSkip
  \/ PauseEvent
  \/ PlayEvent
  \/ SaveSettles
  \/ SaveFails
InitFlushLimitSpec ==
  /\ RestSel /\ RestFilter /\ PlayerPresent /\ InitHls
  /\ currentTime = 30 /\ duration = 1200 /\ paused = FALSE /\ lastSeeks = <<>>
  /\ RestResume /\ InitSkipState /\ RestClock /\ RestEpisodes
  /\ metaReady = TRUE /\ storageType \in StorageTypes
  /\ playRecord = NoRecord /\ savePending = FALSE
  /\ lastSaveTimeRef = 0 /\ lastTrigger = "none"
  /\ InitWake /\ RestPage
SpecFlushLimit == InitFlushLimitSpec /\ [][NextFlushLimit]_vars

\* Anime4K switched on and off over a mounted player, on either browser family
NextA4k ==
  \/ InitAnime4K
  \/ \E f \in frames : CaptureVideoFrame(f)
  \/ Anime4KInitCompletes
  \/ Anime4KInitFails
  \/ CleanupAnime4K
  \/ ToggleBlockAd
  \/ Unmount
InitA4kSpec ==
  /\ RestSel /\ RestFilter /\ PlayerPresent
  /\ RestCore /\ RestTeardown
  /\ RestSkipStore /\ RestAdSync /\ RestInit /\ RestSource /\ RestFlush
  /\ isFirefox \in BOOLEAN /\ anime4kRef = NoAnime4K /\ a4kInit = NoA4kInit
  /\ frames = {} /\ rafIssued = 0 /\ a4kCleaned = {}
  /\ RestOl /\ RestTail
SpecA4k == InitA4kSpec /\ [][NextA4k]_vars

\* the admin route of a deployment, with or without a stored configuration
InitOpenListSpec ==
  /\ RestSel /\ RestFilter /\ RestPlayer
  /\ InitHls /\ RestMedia /\ RestResume /\ RestSkip /\ RestClock /\ RestEpisodes
  /\ metaReady = TRUE /\ storageType \in {"localstorage", "upstash"}
  /\ playRecord = NoRecord /\ savePending = FALSE
  /\ lastSaveTimeRef = 0 /\ lastTrigger = "none"
  /\ InitWake /\ RestTeardown
  /\ RestSkipStore /\ RestAdSync /\ RestInit /\ RestSource /\ RestFlush /\ RestA4k
  /\ olConfig \in {NoOpenList, OldOpenList} /\ olReq = NoRequest
  /\ RestTail
SpecOpenList == InitOpenListSpec /\ [][NextOpenList]_vars

\* progress records of a playing two-episode source while the episode is
\* changed in the selector and the source is changed to siteA
NextRecord ==
  \/ \E n \in 0..1 : HandleEpisodeChange(n)
  \/ EpisodeRefEffect
  \/ UpdateVideoUrlEffect
  \/ PlayerInitEffect
  \/ BeginSourceChange("siteA")
  \/ CompleteSourceChange("ok")
  \/ \E p \in Positions : TimeAdvances(p)
  \/ TimeUpdateSave
  \/ SaveSettles
InitRecordSpec ==
  /\ RestSel /\ RestFilter
  /\ detail = "siteB" /\ sourceChange = NoSourceChange
  /\ episodesLen = Len(EpisodesOf(detail))
  /\ currentEpisodeIndex = 0 /\ currentEpisodeIndexRef = 0
  /\ videoUrl = UpdateVideoUrl(detail, currentEpisodeIndex)
  /\ loading = FALSE /\ blockAdEnabled = TRUE /\ isWebkit = FALSE
  /\ artPlayerRef = 1 /\ alive = {1} /\ created = 1 /\ pendingInits = 0
  /\ effectDue = FALSE /\ switched = 0
  /\ InitHls /\ RestSkip /\ RestClock /\ RestProgress /\ InitWake
  /\ currentTime = 30 /\ duration = 1200 /\ paused = FALSE /\ lastSeeks = <<>>
  /\ RestResume
  /\ RestTeardown /\ RestAdSync /\ RestInit /\ RestFlush /\ RestLater
  /\ skipConfig = ClearedSkipConfig /\ skipCall = NoSkipCall
  /\ currentSourceRef = detail /\ currentIdRef = "id1"
  /\ skipStore = [k \in StoreKeys |-> NoSkipConfig]
SpecRecord == InitRecordSpec /\ [][NextRecord]_vars

\* a three-episode series plays its first episode; outro skip, end of
\* playback and the selector move the episode index
NextAutoNext ==
  \/ Tick
  \/ \E p \in Positions : TimeAdvances(p)
  \/ TimeUpdateSkip
  \/ VideoEnded
  \/ \E t \in endedTimers : EndedTimerFires(t)
  \/ HandleEpisodeChange(2)
  \/ EpisodeRefEffect
  \/ UpdateVideoUrlEffect
  \/ PlayerInitEffect
InitAutoNextSpec ==
  /\ RestSel /\ RestFilter
  /\ detail = "siteS" /\ sourceChange = NoSourceChange
  /\ episodesLen = Len(EpisodesOf(detail))
  /\ currentEpisodeIndex = 0 /\ currentEpisodeIndexRef = 0
  /\ videoUrl = UpdateVideoUrl(detail, currentEpisodeIndex)
  /\ loading = FALSE /\ blockAdEnabled = TRUE /\ isWebkit = FALSE
  /\ artPlayerRef = 1 /\ alive = {1} /\ created = 1 /\ pendingInits = 0
  /\ effectDue = FALSE /\ switched = 0
  /\ InitHls /\ RestClock /\ RestProgress /\ InitWake
  /\ skipConfigRef = [enable |-> TRUE, intro_time |-> 0, outro_time |-> 0 - 30]
  /\ lastSkipCheckRef = 0
  /\ currentTime = 30 /\ duration = 1200 /\ paused = FALSE /\ lastSeeks = <<>>
  /\ RestResume
  /\ RestTeardown /\ RestAdSync /\ RestInit /\ RestFlush /\ RestLater
  /\ skipConfig = ClearedSkipConfig /\ skipCall = NoSkipCall
  /\ currentSourceRef = detail /\ currentIdRef = "id1"
  /\ skipStore = [k \in StoreKeys |-> NoSkipConfig]
SpecAutoNext == InitAutoNextSpec /\ [][NextAutoNext]_vars

\* a three-episode series with a comment-source binding; the user moves
\* between episodes while comment loads are outstanding
NextComment ==
  \/ \E n \in 0..2 : HandleEpisodeChange(n)
  \/ EpisodeRefEffect
  \/ EpisodeDanmakuEffect
  \/ \E l \in danmakuLoads, o \in DanmakuOutcomes : GetDanmakuByIdSettles(l, o)
InitCommentSpec ==
  /\ RestSel /\ RestFilter
  /\ detail = "siteS" /\ sourceChange = NoSourceChange
  /\ episodesLen = Len(EpisodesOf(detail))
  /\ currentEpisodeIndex = 0 /\ currentEpisodeIndexRef = 0
  /\ videoUrl = UpdateVideoUrl(detail, currentEpisodeIndex)
  /\ loading = FALSE /\ blockAdEnabled = TRUE /\ isWebkit = FALSE
  /\ artPlayerRef = 1 /\ alive = {1} /\ created = 1 /\ pendingInits = 0
  /\ effectDue = FALSE /\ switched = 0
  /\ InitHls /\ RestClock /\ RestProgress /\ InitWake
  /\ RestSkip /\ RestMedia /\ RestResume
  /\ RestTeardown /\ RestSkipStore /\ RestAdSync /\ RestInit /\ RestFlush
  /\ RestA4k /\ RestOl /\ RestDm /\ RestResumeFor /\ RestStream /\ RestAutoNext
  /\ currentDanmakuSelection = DanmakuEpisodesList[1]
  /\ danmakuTrack = DanmakuEpisodesList[1]
  /\ danmakuLoads = {} /\ danmakuLoadSeq = 0 /\ danmakuEffectIndex = 0
SpecComment == InitCommentSpec /\ [][NextComment]_vars

InitDmSpec ==
  /\ RestSel /\ RestFilter /\ RestPlayer
  /\ InitHls /\ RestMedia /\ RestResume /\ RestSkip /\ RestClock /\ RestEpisodes
  /\ RestProgress /\ InitWake /\ RestTeardown
  /\ RestSkipStore /\ RestAdSync /\ RestInit /\ RestSource /\ RestFlush
  /\ RestA4k /\ RestOl
  /\ dmWindow \in BOOLEAN /\ dmEnv \in DmEnvValues
  /\ dmStore = [e \in DmEpisodeIds |-> NoEntry]
  /\ dmSave = NoDmCall /\ dmGet = NoDmCall
  /\ RestResumeFor /\ RestStream /\ RestAutoNext /\ RestComment
SpecDm == InitDmSpec /\ [][NextDm]_vars


\* ------------------------------------------------------------------------
\* Claims
\* ------------------------------------------------------------------------
SelDone == selPc = "done"
AllProbesFailed == \A k \in DOMAIN allResults : allResults[k].isNull
SomeProbeSucceeded == \E k \in DOMAIN allResults : ~allResults[k].isNull
CeilHalf(n) == (n + 1) \div 2

\* C1: at most one player instance is alive at any time, under any
\* interleaving of URL changes, ad-filter toggles and completions of the
\* asynchronous initPlayer.
C1_AtMostOnePlayerAlive == Cardinality(alive) <= 1

\* C2: when every probe of a round over >= 2 candidates fails (throws, or the
\* candidate has no episodes), preferBestSource returns candidates[0] and
\* does not raise.
C2_AllFailedReturnsFirst ==
  (SelDone /\ Len(sources) >= 2 /\ AllProbesFailed)
    => selReturn = Returned(sources[1])
C2_Witness ==
  /\ SelDone /\ Len(sources) = 3 /\ AllProbesFailed
  /\ probesStarted # {} /\ \E i \in 1..3 : sources[i].episodes = 0
  /\ selReturn = Returned(sources[1])

\* the score the round gives to the successful result at index k of allResults
ScoreAt(k) ==
  LET succ == SuccessfulResults(allResults)
  IN CalculateSourceScore(allResults[k].testResult, MaxSpeedOf(succ),
                          MinPingOf(succ), MaxPingOf(succ))

\* C3: with at least one successful probe, preferBestSource returns a
\* candidate whose probe succeeded, whose score is maximal among the
\* successful ones, and which is the first such candidate in input order;
\* the failed probes do not abort the selection.
C3_ReturnsFirstMaximal ==
  (SelDone /\ Len(sources) >= 2 /\ SomeProbeSucceeded) =>
    /\ selReturn.status = "returned"
    /\ \E i \in DOMAIN allResults :
         /\ ~allResults[i].isNull
         /\ selReturn.value = sources[i]
         /\ \A j \in DOMAIN allResults :
              ~allResults[j].isNull =>
                 /\ ScoreAt(j) <= ScoreAt(i)
                 /\ (j < i => ScoreAt(j) < ScoreAt(i))
C3_Witness ==
  /\ SelDone /\ Len(sources) = 3
  /\ allResults[1].isNull /\ ~allResults[2].isNull /\ ~allResults[3].isNull
  /\ ScoreAt(2) < ScoreAt(3)
  /\ selReturn = Returned(sources[3])
C3_WitnessTie ==
  /\ SelDone /\ Len(sources) = 3
  /\ allResults[1].isNull /\ ~allResults[2].isNull /\ ~allResults[3].isNull
  /\ ScoreAt(2) = ScoreAt(3)
  /\ selReturn = Returned(sources[2])

\* C4: no probe of the second batch is outstanding before every probe of the
\* first batch has settled, and at most ceil(N/2) probes are outstanding.
C4_BatchesSequential ==
  /\ Cardinality(pending) <= CeilHalf(Len(sources))
  /\ \A i \in probesStarted :
       i > CeilHalf(Len(sources)) => (1 .. CeilHalf(Len(sources))) \subseteq settled
C4_Witness ==
  /\ Len(sources) = 3 /\ 3 \in pending
  /\ {1, 2} \subseteq probesStarted /\ {1, 2} \subseteq settled

\* C5: a candidate list of exactly one element is returned at once, with no
\* probe request and nothing published.
C5_SingleCandidateNoProbe ==
  Len(sources) = 1 =>
    /\ probesStarted = {} /\ pending = {} /\ setInfoCalls = 0
    /\ precomputedVideoInfo = << >>
    /\ selPc \in {"idle", "done"}
    /\ (SelDone => selReturn = Returned(sources[1]))
C5_Witness ==
  /\ Len(sources) = 1 /\ sources[1].episodes > 0 /\ SelDone
  /\ selReturn = Returned(sources[1])

\* C6: after a round over >= 2 candidates every successful measurement is in
\* the published map under the key of the candidate it was taken for (the
\* results stay aligned with the candidates across the two batches).
C6_SuccessesPublishedAligned ==
  (SelDone /\ Len(sources) >= 2) =>
    \A k \in DOMAIN allResults :
      ~allResults[k].isNull =>
        /\ allResults[k].source = sources[k]
        /\ SourceKey(allResults[k].source) \in DOMAIN precomputedVideoInfo
        /\ precomputedVideoInfo[SourceKey(allResults[k].source)] = allResults[k].testResult
C6_Witness ==
  /\ SelDone /\ Len(sources) = 3
  /\ \A k \in 1..3 : ~allResults[k].isNull
  /\ allResults[1].testResult # allResults[2].testResult
  /\ allResults[2].testResult # allResults[3].testResult
  /\ selReturn # Returned(sources[3])
  /\ precomputedVideoInfo[SourceKey(sources[3])] = allResults[3].testResult

\* C7: after a round the published map has an entry for every candidate of
\* the round, the failed ones included.
C7_EveryCandidatePublished ==
  (SelDone /\ Len(sources) >= 2) =>
    \A i \in DOMAIN sources : SourceKey(sources[i]) \in DOMAIN precomputedVideoInfo

\* the default rule is in use (no override code)
NoOverride == customAdFilterCode = "" \/ Trim(customAdFilterCode) = ""
\* the lines of a text whose index is not in the set removed, joined
RECURSIVE KeepFrom(_, _, _)
KeepFrom(lines, removed, i) ==
  IF i > Len(lines) THEN <<>>
  ELSE IF i \in removed THEN KeepFrom(lines, removed, i + 1)
  ELSE <<lines[i]>> \o KeepFrom(lines, removed, i + 1)
KeepLines(lines, removed) == Join(KeepFrom(lines, removed, 1))

\* C8: the default filter returns the input lines in order minus every
\* DISCONTINUITY line and, for provider "ruyi" only, every line with a filler
\* token together with the line right after it.
C8_RemovesEveryFillerPair ==
  (fPc = "once" /\ NoOverride) =>
    LET Removed == { i \in DOMAIN fContent :
                       \/ HasDiscontinuity(fContent[i])
                       \/ /\ fType = "ruyi"
                          /\ \/ HasFiller(fContent[i])
                             \/ (i > 1 /\ HasFiller(fContent[i - 1])) }
    IN fOut = Text(KeepLines(fContent, Removed))

\* line i starts a filler pair: it carries a filler token and no DISCONTINUITY
\* marker, and is not itself the second line of a pair
RECURSIVE StartsPair(_)
StartsPair(i) ==
  /\ fType = "ruyi"
  /\ HasFiller(fContent[i])
  /\ ~HasDiscontinuity(fContent[i])
  /\ (i > 1 => ~StartsPair(i - 1))

\* C8 (amended): ... minus every DISCONTINUITY line and, for "ruyi" only, every
\* filler pair, a pair being a filler-token line without the DISCONTINUITY
\* marker that is not the second line of an earlier pair, and the line after it.
C8_RemovesScannedFillerPairs ==
  (fPc = "once" /\ NoOverride) =>
    LET Removed == { i \in DOMAIN fContent :
                       \/ HasDiscontinuity(fContent[i])
                       \/ StartsPair(i)
                       \/ (i > 1 /\ StartsPair(i - 1)) }
    IN fOut = Text(KeepLines(fContent, Removed))
C8_Witness ==
  /\ fPc = "once" /\ NoOverride /\ fType = "ruyi"
  /\ Len(fContent) = 3
  /\ HasFiller(fContent[1]) /\ ~HasDiscontinuity(fContent[1])
  /\ fContent[2] = <<"seg.ts">> /\ fContent[3] = <<"seg.ts">>
  /\ fOut = Text(<< <<"seg.ts">> >>)
C8_WitnessOther ==
  /\ fPc = "once" /\ NoOverride /\ fType = "other"
  /\ Len(fContent) = 3
  /\ HasFiller(fContent[1]) /\ fContent[2] = <<DISCONTINUITY>>
  /\ fOut = Text(<<fContent[1], fContent[3]>>)

\* C9: the default filter is idempotent, and its output has no DISCONTINUITY
\* line and, for "ruyi", no filler line.
C9_DefaultFilterIdempotent ==
  /\ (fPc \in {"once", "twice"} /\ NoOverride) =>
        \A k \in DOMAIN fOut.text :
           /\ ~HasDiscontinuity(fOut.text[k])
           /\ (fType = "ruyi" => ~HasFiller(fOut.text[k]))
  /\ (fPc = "twice" /\ NoOverride) => fOut2 = fOut
C9_Witness ==
  /\ fPc = "twice" /\ NoOverride /\ fType = "ruyi"
  /\ \E k \in DOMAIN fContent : HasFiller(fContent[k])
  /\ \E k \in DOMAIN fContent : HasDiscontinuity(fContent[k])
  /\ fOut = Text(<< <<"seg.ts">> >>)
  /\ fOut2 = fOut

\* C10: with an override that throws or returns something that is not
\* manifest text, filterAdsFromM3U8 returns the default rule's result; with no
\* override it returns the default rule's result.
C10_OverrideFaultFallsBack ==
  (fPc = "once" /\ customAdFilterCode # "returnsText")
     => fOut = Text(DefaultFilter(fType, fContent))

\* ---- C11 ----
\* C11: a loader response is rewritten only when its fetch type is "manifest"
\* or "level" and its payload is text; a response of any other fetch type
\* reaches the decoder unchanged; and a decoder carries the interceptor only
\* if the ad-filter setting was enabled when the decoder was created.
C11_InterceptorScope ==
  /\ lastLoad.delivered # lastLoad.data
       => (lastLoad.type \in {"manifest", "level"} /\ lastLoad.data.kind = "text")
  /\ lastLoad.type \notin {"manifest", "level"} => lastLoad.delivered = lastLoad.data
  /\ (hls.state # "none" /\ hls.loader = "custom") => hls.blockAd

\* a decoder created with the setting on rewrote a manifest
C11_Witness ==
  /\ hls.state = "attached" /\ hls.loader = "custom" /\ hls.blockAd
  /\ lastLoad.type = "manifest" /\ lastLoad.delivered # lastLoad.data

\* a text payload with a DISCONTINUITY line came through the interceptor as a
\* fetch of another type, and a decoder was created with the setting off
C11_WitnessSegment ==
  /\ hls.state = "attached" /\ hls.loader = "custom"
  /\ lastLoad.type = "fragment" /\ lastLoad.data.kind = "text"
  /\ \E k \in DOMAIN lastLoad.data.text : HasDiscontinuity(lastLoad.data.text[k])
C11_WitnessOff ==
  /\ hls.state = "attached" /\ hls.loader = "default" /\ ~hls.blockAd
  /\ lastLoad.type = "manifest" /\ lastLoad.data.kind = "text"

\* ---- C12 ----
\* C12 as stated: on can-play with a pending target t > 0 and a known
\* duration d, the seek goes to t when t < d - 2 and to max(0, d - 5)
\* otherwise, and the position applied is never within 2 seconds of the end.
C12_ResumeSeekNeverNearEnd ==
  [][ (CanPlay /\ resumeTimeRef # Null /\ resumeTimeRef > 0 /\ duration # 0)
      => /\ currentTime' = IF resumeTimeRef < duration - 2
                           THEN resumeTimeRef
                           ELSE (IF duration - 5 > 0 THEN duration - 5 ELSE 0)
         /\ ~(duration - currentTime' < 2) ]_vars

\* C12 amended: the seek goes to t when t < d - 2 and to max(0, d - 5)
\* otherwise; when d is at least 2 the position applied is at least 2
\* seconds before the end.
C12_ResumeSeekClamped ==
  [][ (CanPlay /\ resumeTimeRef # Null /\ resumeTimeRef > 0 /\ duration # 0)
      => /\ currentTime' = IF resumeTimeRef < duration - 2
                           THEN resumeTimeRef
                           ELSE (IF duration - 5 > 0 THEN duration - 5 ELSE 0)
         /\ lastSeeks' = <<currentTime'>>
         /\ duration >= 2 => duration - currentTime' >= 2 ]_vars

\* a target at the end of a 100 s stream was applied 5 s before the end
C12_Witness ==
  /\ duration = 100 /\ lastSeeks = <<95>> /\ currentTime = 95
  /\ resumeTimeRef = Null /\ seeksSinceSet = 1

\* a target was applied in a stream shorter than 2 s
C12_WitnessShort ==
  /\ duration = 1 /\ lastSeeks = <<0>> /\ seeksSinceSet = 1

\* ---- C13 ----
\* C13: every can-play event leaves the resume target cleared; a target that
\* was set causes at most one resume seek, and a can-play event with no
\* pending target issues no seek.
C13_ResumeOneShot ==
  [][ CanPlay => /\ resumeTimeRef' = Null
                 /\ seeksSinceSet' <= 1
                 /\ (resumeTimeRef = Null => lastSeeks' = <<>>) ]_vars

\* after the resume seek of a target a later can-play event issued no seek
C13_Witness ==
  /\ seeksSinceSet = 1 /\ resumeTimeRef = Null /\ lastSeeks = <<>>

\* ---- C14 ----
\* C14: while the play position is under 1 second or the duration is unknown
\* or zero, no step of any trigger of saveCurrentPlayProgress writes a
\* progress record or starts a savePlayRecord call.
C14_NoSaveBelowOneSecond ==
  [][ (currentTime < 1 \/ duration = 0)
      => (playRecord' = playRecord /\ (savePending' => savePending)) ]_vars

\* a pause at position 0 of a stream of known duration invoked
\* saveCurrentPlayProgress with every ref set, and nothing was written
C14_Witness ==
  /\ lastTrigger = "pause" /\ paused /\ artPlayerRef # 0 /\ metaReady
  /\ currentTime = 0 /\ duration # 0
  /\ playRecord = NoRecord /\ ~savePending

\* a record was written by a trigger
C14_WitnessWritten ==
  /\ playRecord # NoRecord /\ playRecord.play_time >= 1 /\ playRecord.total_time > 0
  /\ lastTrigger = "unload"

\* ---- C15 ----
\* C15 as stated: with skip enabled and intro_time > 0, every time-update
\* that reports a position below intro_time makes the listener issue exactly
\* one seek, to intro_time.
C15_SkipIntroOnEveryTimeUpdate ==
  [][ (TimeUpdateSkip /\ skipConfigRef.enable /\ skipConfigRef.intro_time > 0
         /\ currentTime < skipConfigRef.intro_time)
      => lastSeeks' = <<skipConfigRef.intro_time>> ]_vars

\* C15 amended: with skip enabled, a time-update that arrives 1.5 s or more
\* after the last skip check is checked: when intro_time > 0 and the position
\* is below intro_time it issues exactly one seek, to intro_time, and the
\* check time is recorded; a time-update that arrives earlier than 1.5 s
\* after the last check runs no check and issues no seek.
C15_SkipIntroWhenChecked ==
  [][ (TimeUpdateSkip /\ skipConfigRef.enable)
      => IF now - lastSkipCheckRef >= 1500
         THEN /\ lastSkipCheckRef' = now
              /\ (skipConfigRef.intro_time > 0 /\ currentTime < skipConfigRef.intro_time)
                   => (lastSeeks' = <<skipConfigRef.intro_time>>
                       /\ currentTime' = skipConfigRef.intro_time)
         ELSE /\ lastSeeks' = <<>>
              /\ UNCHANGED <<lastSkipCheckRef, currentTime, paused, currentEpisodeIndex>>
    ]_vars

\* a checked time-update below intro_time issued the seek to intro_time
C15_Witness ==
  /\ skipConfigRef.enable /\ skipConfigRef.intro_time > 0
  /\ lastSeeks = <<skipConfigRef.intro_time>>
  /\ currentTime = skipConfigRef.intro_time
  /\ lastSkipCheckRef = now

\* ---- C16 ----
\* C16: with skip enabled, outro_time < 0 and a known duration, a checked
\* time-update whose position is beyond duration + outro_time sets the
\* episode index to the next episode when the current one is not the last of
\* the source, and otherwise pauses and leaves the episode index unchanged.
C16_SkipOutro ==
  [][ (TimeUpdateSkip /\ skipConfigRef.enable /\ now - lastSkipCheckRef >= 1500
         /\ skipConfigRef.outro_time < 0 /\ duration > 0
         /\ currentTime > duration + skipConfigRef.outro_time)
      => IF currentEpisodeIndexRef + 1 < episodesLen
         THEN currentEpisodeIndex' = currentEpisodeIndexRef + 1
         ELSE paused' /\ currentEpisodeIndex' = currentEpisodeIndex ]_vars

\* the outro of the last episode was reached: paused, index unchanged
C16_Witness ==
  /\ skipConfigRef.enable /\ skipConfigRef.outro_time < 0
  /\ duration > 0 /\ currentTime > duration + skipConfigRef.outro_time
  /\ lastSkipCheckRef = now /\ paused
  /\ currentEpisodeIndex = episodesLen - 1
  /\ currentEpisodeIndexRef = currentEpisodeIndex

\* the outro of an earlier episode was reached: the index moved on
C16_WitnessNext ==
  /\ skipConfigRef.enable /\ skipConfigRef.outro_time < 0
  /\ lastSkipCheckRef = now /\ ~paused
  /\ currentEpisodeIndex = currentEpisodeIndexRef + 1

C17_WitnessPlay ==
  /\ ~paused /\ wlRequesting /\ wlGranted = 1 /\ wakeLockRef = 0

\* ---- C18 ----
\* C18: a fatal network error makes the handler call startLoad and a fatal
\* media error recoverMediaError, the decoder staying attached and the
\* session state (player, resume target, episode, position, record, page
\* error, loader) untouched; a non-fatal error changes nothing at all.
C18_InPlaceRecovery ==
  [][ \A fatal \in BOOLEAN, type \in ErrorTypes :
        HlsError(fatal, type)
        => /\ (fatal /\ type = "networkError")
                => (hls'.state = "attached" /\ hls'.lastCall = "startLoad")
           /\ (fatal /\ type = "mediaError")
                => (hls'.state = "attached" /\ hls'.lastCall = "recoverMediaError")
           /\ ~fatal => hls' = hls
           /\ (~fatal \/ type \in {"networkError", "mediaError"})
                => /\ hls'.loader = hls.loader
                   /\ UNCHANGED <<artPlayerRef, alive, resumeTimeRef, currentEpisodeIndex,
                                  currentTime, paused, playRecord, error, lastLoad,
                                  blockAdEnabledRef>> ]_vars

\* a fatal network error was answered by startLoad on the attached decoder
C18_Witness ==
  /\ hls.state = "attached" /\ hls.lastCall = "startLoad" /\ fatalRun = 1

\* a fatal media error was answered by recoverMediaError
C18_WitnessMedia ==
  /\ hls.state = "attached" /\ hls.lastCall = "recoverMediaError"

\* ---- C19 ----
\* C19: once the handler has destroyed the decoder on a fatal error of
\* another class, the decoder is destroyed and the page shows an error.
C19_OtherFatalSurfacesError ==
  hls.lastCall = "destroy" => (hls.state = "destroyed" /\ error # "")

\* ---- C20 ----
\* C20: two fatal network errors in a row with no rendered frame in between
\* end the in-place recovery: the decoder is torn down and the page shows an
\* error instead of a further startLoad.
C20_SecondNetworkFailureEscalates ==
  fatalRun >= 2 => (hls.state = "destroyed" /\ hls.lastCall # "startLoad" /\ error # "")

\* C21: a call of cleanupPlayer, whatever the state it is made in (no player
\* stored, or a destroy statement that throws), lets no exception out and
\* leaves the player handle empty; a second call right after it, whatever
\* fault it would meet, changes nothing and throws nothing.
C21_CleanupIdempotent ==
  [][cleanupLog'.tick # cleanupLog.tick =>
       /\ ~cleanupLog'.threw
       /\ artPlayerRef' = 0
       /\ \A f \in CleanupFaults :
            CleanupPlayerOutcome(artPlayerRef', hls', alive', f) =
              [ref |-> 0, hls |-> hls', alive |-> alive', threw |-> FALSE]]_vars

\* a call that found a player and whose hls.destroy() threw
C21_Witness ==
  /\ cleanupLog.had /\ cleanupLog.fault = "hls"
  /\ artPlayerRef = 0 /\ hls.state = "attached"

\* a call made when no player was stored
C21_WitnessNoPlayer == cleanupLog.tick = 1 /\ ~cleanupLog.had /\ artPlayerRef = 0

\* C22: every teardown path (unload, unmount, rebuild, ad-filter toggle) has
\* called saveCurrentPlayProgress, has asked a stored wake-lock sentinel to
\* release and has destroyed the decoder by the end of its step.
C22_TeardownSavesReleasesDestroys ==
  [][teardownLog'.tick # teardownLog.tick =>
       /\ lastTrigger' = teardownLog'.path
       /\ (wakeLockRef # 0 => wakeLockRef \notin wlHeld')
       /\ hls'.state # "attached"]_vars

\* C23: whenever one of the episode handlers changes currentEpisodeIndex, the
\* same step has called saveCurrentPlayProgress for the outgoing episode: when
\* the save's own early returns do not apply, the record handed to
\* savePlayRecord is the outgoing index and position.
C23_EpisodeChangeFlushes ==
  [][(currentEpisodeIndex' # currentEpisodeIndex
        /\ SaveWrites(artPlayerRef, metaReady, currentTime, duration))
     => (/\ lastTrigger' = "episode"
         /\ playRecord' = SavedRecord(currentEpisodeIndexRef, currentTime, duration)
         /\ savePending')]_vars

\* C24: once every probe is in, two successful results with the same score
\* are identical in quality, speed and latency.
C24_TiesOnlyBetweenIdentical ==
  SelDone =>
    \A i, j \in DOMAIN allResults :
      (~allResults[i].isNull /\ ~allResults[j].isNull /\ ScoreAt(i) = ScoreAt(j))
        => allResults[i].testResult = allResults[j].testResult

\* the ranking preferBestSource sorts by, once every probe is in
Ranking == SortByScore(ResultsWithScore(SuccessfulResults(allResults)))

\* C24 (amended): results identical in quality, speed and latency receive the
\* same score; results that differ in quality alone are scored strictly by
\* quality; the ranking is by non-increasing score and lists results of equal
\* score in candidate order. (Results that differ in more than one measure
\* may receive the same score.)
C24_TiesRankedInCandidateOrder ==
  SelDone =>
    /\ \A i, j \in DOMAIN allResults :
         (~allResults[i].isNull /\ ~allResults[j].isNull) =>
            /\ (allResults[i].testResult = allResults[j].testResult
                  => ScoreAt(i) = ScoreAt(j))
            /\ ((allResults[i].testResult.loadSpeed = allResults[j].testResult.loadSpeed
                 /\ allResults[i].testResult.pingTime = allResults[j].testResult.pingTime
                 /\ QualityScore(allResults[i].testResult.quality) >
                      QualityScore(allResults[j].testResult.quality))
                  => ScoreAt(i) > ScoreAt(j))
    /\ \A a, b \in DOMAIN Ranking :
         a < b => /\ Ranking[a].score >= Ranking[b].score
                  /\ (Ranking[a].score = Ranking[b].score
                        => Ranking[a].source.id < Ranking[b].source.id)

\* two results that differ in quality and speed and receive the same score
C24_Witness ==
  /\ SelDone
  /\ \E i, j \in DOMAIN allResults :
       /\ i < j /\ ~allResults[i].isNull /\ ~allResults[j].isNull
       /\ allResults[i].testResult.quality # allResults[j].testResult.quality
       /\ allResults[i].testResult.loadSpeed # allResults[j].testResult.loadSpeed
       /\ ScoreAt(i) = ScoreAt(j)
       /\ Len(Ranking) >= 2

\* C25: a call of handleSkipConfigChange that reaches persistence is made with
\* an active source and content id and addresses their key; it is a delete
\* exactly when the new configuration has enable = false, intro_time = 0 and
\* outro_time = 0, and otherwise a save of the new configuration; a call that
\* resolves removes or replaces the entry of that key and no other entry.
\* The persisted configurations and the skipConfig state change in no other
\* step, so a call without active source or content id changes nothing.
C25_SkipConfigDeleteOrSave ==
  [][/\ (skipCall' # skipCall =>
          /\ currentSourceRef # "" /\ currentIdRef # ""
          /\ skipCall'.key = <<currentSourceRef, currentIdRef>>
          /\ skipConfig' = skipCall'.config
          /\ (skipCall'.op = "delete" <=>
                (~skipCall'.config.enable /\ skipCall'.config.intro_time = 0
                   /\ skipCall'.config.outro_time = 0))
          /\ (skipCall'.op # "delete" => skipCall'.op = "save")
          /\ \A k \in StoreKeys :
               skipStore'[k] =
                 IF k # skipCall'.key \/ ~skipCall'.ok THEN skipStore[k]
                 ELSE IF skipCall'.op = "delete" THEN NoSkipConfig
                 ELSE skipCall'.config)
     /\ ((skipStore' # skipStore \/ skipConfig' # skipConfig) => skipCall' # skipCall)
    ]_vars

\* a stored configuration was deleted, the entry of the other source is kept
C25_Witness ==
  /\ skipCall.op = "delete" /\ skipCall.ok
  /\ skipStore[skipCall.key] = NoSkipConfig
  /\ \E k \in StoreKeys : k # skipCall.key /\ skipStore[k] # NoSkipConfig

\* a disabled configuration with an intro mark was saved
C25_WitnessSave ==
  /\ skipCall.op = "save" /\ skipCall.ok
  /\ ~skipCall.config.enable /\ skipCall.config.intro_time = 90
  /\ skipStore[skipCall.key] = skipCall.config

\* C26: fetchAdFilterCode requests the full code only when there is no cached
\* version or the cached version is not the server's; a failed version or
\* full-code request leaves the code in use, the cached code and the cached
\* version as they were; the two cache items are written in the same step
\* (both set, with the new code in use, or both removed), so one exists
\* exactly when the other does.
C26_AdFilterCodeSync ==
  [][/\ (adPc' = "full" /\ adPc # "full"
           => (cachedVersion = "" \/ ParseInt(cachedVersion) # serverVersion'))
     /\ (adOutcome' \in {"versionFailed", "fullFailed"}
           => (/\ customAdFilterCode' = customAdFilterCode
               /\ cachedCode' = cachedCode
               /\ cachedVersion' = cachedVersion))
     /\ ((cachedCode' # cachedCode \/ cachedVersion' # cachedVersion)
           => (/\ adPc = "full"
               /\ cachedCode' # ""
               /\ cachedVersion' = VersionToString(serverVersion)
               /\ customAdFilterCode' = cachedCode'))
     /\ ((cachedCode' = "") <=> (cachedVersion' = ""))
    ]_vars

\* the full-code request failed while a cached code of another version is in use
C26_Witness ==
  /\ adOutcome = "fullFailed"
  /\ cachedCode = "returnsText" /\ customAdFilterCode = "returnsText"
  /\ cachedVersion = "1" /\ serverVersion = 2

\* the version request failed
C26_WitnessVersion == adOutcome = "versionFailed" /\ customAdFilterCode = cachedCode

\* the cached version is the server's: no full-code request
C26_WitnessUpToDate ==
  adOutcome = "upToDate" /\ ParseInt(cachedVersion) = serverVersion

\* a newer code replaced the cached one
C26_WitnessUpdated ==
  /\ adOutcome = "updated" /\ cachedCode = "throws" /\ cachedVersion = "2"
  /\ customAdFilterCode = "throws"

\* C27: when the record lookup of initAll fails, no resume target is set, the
\* episode stays as it was and setLoading(false) can still be scheduled; when
\* a savePlayRecord call fails, nothing but the pending call changes: player,
\* decoder, media position, episode, resume target, the error state and the
\* record last handed over are as before.
C27_PersistenceFailureIgnored ==
  /\ [](recordsLoad = "failed" => (loading => ENABLED FinishLoading))
  /\ [][/\ ((recordsLoad = "pending" /\ recordsLoad' = "failed")
              => (/\ resumeTimeRef' = Null
                  /\ currentEpisodeIndex' = currentEpisodeIndex
                  /\ error' = error
                  /\ UNCHANGED <<playerVars, mediaVars>>))
        /\ ((savePending /\ ~savePending' /\ lastSaveTimeRef' = lastSaveTimeRef)
              => UNCHANGED <<playerVars, hlsVars, mediaVars, resumeVars, episodeVars,
                             playRecord, wakeVars>>)]_vars

\* the lookup failed and the page went on to a playing player without a
\* resume target
C27_Witness ==
  /\ recordsLoad = "failed" /\ ~loading /\ artPlayerRef # 0
  /\ resumeTimeRef = Null /\ currentTime = 30 /\ ~paused

\* a save failed while the player holds its position
C27_WitnessSave ==
  /\ recordsLoad = "found" /\ artPlayerRef # 0 /\ ~savePending
  /\ playRecord # NoRecord /\ lastSaveTimeRef = 0 /\ currentTime = 30

C28_WitnessWebkit ==
  /\ isWebkit /\ teardownLog.path = "rebuild" /\ cleanupLog.fault = "none"
  /\ created = 2 /\ artPlayerRef = 2 /\ alive = {2} /\ switched = 0

\* C29: in every state in which a non-empty stream URL is set, the episode
\* index is within the episodes of the active source and the URL is that
\* source's episode at that index.
C29_UrlMatchesIndex ==
  videoUrl # "" =>
    /\ 0 <= currentEpisodeIndex
    /\ currentEpisodeIndex < Len(EpisodesOf(detail))
    /\ videoUrl = EpisodesOf(detail)[currentEpisodeIndex + 1]

\* C29, second sentence: a source change that completes while the current
\* index is out of range for the new source sets the index to 0 and leaves no
\* position to resume (a resume target of 0; null resumes nothing either).
C29_SourceChangeClamps ==
  [][((/\ sourceChange # NoSourceChange
       /\ sourceChange' = NoSourceChange
       /\ sourceChange.target \in AvailableSources
       /\ currentEpisodeIndex >= Len(EpisodesOf(sourceChange.target)))
      => (currentEpisodeIndex' = 0 /\ resumeTimeRef' \in {0, Null}))]_vars

\* what handleSourceChange does ensure: it clamps the index its call holds,
\* installs the new source with an index in range, and zeroes the resume target
\* when that held index was out of range
C29_SourceChangeClampsHeldIndex ==
  [][((/\ sourceChange # NoSourceChange
       /\ sourceChange' = NoSourceChange
       /\ sourceChange.target \in AvailableSources)
      => (/\ detail' = sourceChange.target
          /\ currentEpisodeIndex' < Len(EpisodesOf(detail'))
          /\ (sourceChange.index >= Len(EpisodesOf(sourceChange.target))
                => (currentEpisodeIndex' = 0 /\ resumeTimeRef' = 0))))]_vars

\* once updateVideoUrl has run for the detail and the index of the state, a
\* non-empty address is the episode at an index in range
C29_UrlMatchesIndexAfterUpdate ==
  (~ENABLED UpdateVideoUrlEffect /\ videoUrl # "") =>
    /\ 0 <= currentEpisodeIndex
    /\ currentEpisodeIndex < Len(EpisodesOf(detail))
    /\ videoUrl = EpisodesOf(detail)[currentEpisodeIndex + 1]

\* a source change clamped the index: the second episode of siteB was playing,
\* siteA has one episode
C29_WitnessClamped ==
  /\ detail = "siteA" /\ currentEpisodeIndex = 0 /\ resumeTimeRef = 0
  /\ videoUrl = "alt2.m3u8" /\ sourceChange = NoSourceChange

\* a step in which the time-update save listener flushes
TimeUpdateFlushStep == TimeUpdateSave /\ timeUpdateFlushAt' # timeUpdateFlushAt
\* a step in which the time-update skip listener passes its limiter
SkipCheckStep == TimeUpdateSkip /\ lastSkipCheckRef' # lastSkipCheckRef

\* C30: between two consecutive flushes triggered by time-update events more
\* than the policy interval elapses (5 s, 20 s for upstash), and the two
\* limiters are independent: whether the save listener flushes depends on the
\* clock and lastSaveTimeRef only, whether the skip listener checks depends on
\* the clock and lastSkipCheckRef only, and neither step writes the other's
\* timestamp.
C30_TimeUpdateFlushesRateLimited ==
  /\ [](ENABLED TimeUpdateFlushStep <=>
          (artPlayerRef # 0 /\
           now - lastSaveTimeRef >
             (IF storageType = "upstash" THEN UpstashSaveIntervalMs ELSE SaveIntervalMs)))
  /\ [](ENABLED SkipCheckStep <=>
          (artPlayerRef # 0 /\ skipConfigRef.enable /\ now - lastSkipCheckRef >= SkipCheckMs))
  /\ [][TimeUpdateFlushStep =>
          /\ lastSkipCheckRef' = lastSkipCheckRef
          /\ (timeUpdateFlushAt # NoFlush =>
                /\ (storageType = "upstash" =>
                      now - timeUpdateFlushAt > UpstashSaveIntervalMs)
                /\ (storageType # "upstash" => now - timeUpdateFlushAt > SaveIntervalMs))]_vars
  /\ [][SkipCheckStep =>
          (lastSaveTimeRef' = lastSaveTimeRef /\ timeUpdateFlushAt' = timeUpdateFlushAt)]_vars

\* a second time-update flush on upstash, after a skip check ran in between
C30_Witness ==
  /\ storageType = "upstash" /\ lastTrigger = "timeupdate"
  /\ timeUpdateFlushAt > StartNow + UpstashSaveIntervalMs
  /\ lastSkipCheckRef > StartNow /\ lastSkipCheckRef < timeUpdateFlushAt
\* a second time-update flush on the default backend
C30_WitnessDefault ==
  /\ storageType = "localstorage" /\ lastTrigger = "timeupdate"
  /\ timeUpdateFlushAt > StartNow + SaveIntervalMs
  /\ timeUpdateFlushAt <= StartNow + 2 * SaveIntervalMs
\* exactly the interval after a flush no flush is due
C30_WitnessAtInterval ==
  /\ storageType = "localstorage" /\ timeUpdateFlushAt # NoFlush
  /\ lastSaveTimeRef = timeUpdateFlushAt
  /\ now = timeUpdateFlushAt + SaveIntervalMs
  /\ ~ENABLED TimeUpdateFlushStep

\* C31: once cleanupAnime4K has completed for a capture loop, that loop has no
\* frame callback scheduled any more.
C31_CleanupCancelsCaptureLoop == \A f \in frames : f.loop \notin a4kCleaned

\* what cleanupAnime4K does ensure: the id stored in the record is no longer
\* scheduled, and the record is dropped
C31_CleanupCancelsStoredId ==
  [][(a4kCleaned' # a4kCleaned) =>
       (~anime4kRef'.set /\ \A f \in frames' : f.id # anime4kRef.frameRequestId)]_vars

\* a capture loop still scheduled after cleanupAnime4K ran and the session of
\* its player was torn down
C31_WitnessLoopOutlivesSession ==
  /\ frames # {} /\ artPlayerRef = 0 /\ alive = {}
  /\ \A f \in frames : f.loop \in a4kCleaned

\* C32: the scan interval stored by a successful POST save is 0 or at least
\* 60 minutes, whatever ScanInterval value was submitted.
C32_StoredScanIntervalZeroOrAtLeast60 ==
  olConfig.set => (olConfig.ScanInterval = 0 \/ olConfig.ScanInterval >= 60)

\* what the check does ensure: no stored interval lies strictly between 0
\* and 60
C32_StoredScanIntervalNotBelow60 ==
  olConfig.set => ~(olConfig.ScanInterval > 0 /\ olConfig.ScanInterval < 60)

\* a save with a non-numeric interval stored 0, one with "90min" would store 90
C32_WitnessNonNumeric ==
  /\ olReq.stage = "done" /\ olReq.status = 200
  /\ olReq.req.scan.digits = <<>> /\ olConfig.ScanInterval = 0

\* the checks of the claim other than the scan interval, on the request being
\* handled
C40_GateChecksPass ==
  /\ storageType # "localstorage"
  /\ olReq.req.user # ""
  /\ \/ olReq.req.user = OwnerName
     \/ /\ olReq.req.user \in DOMAIN UserEntries
        /\ UserEntries[olReq.req.user].role = "admin"
        /\ ~UserEntries[olReq.req.user].banned
  /\ olReq.req.action = "save"
  /\ olReq.req.cred.URL # "" /\ olReq.req.cred.Username # ""
  /\ olReq.req.cred.Password # ""
  /\ olReq.login = "ok"
\* a step that writes the OpenList configuration
C40_Written == olConfig' # olConfig \/ (olReq.stage = "save" /\ olReq'.status = 200)
\* the write keeps LastRefreshTime and ResourceCount
C40_KeepsRefreshData ==
  olConfig.set =>
    /\ olConfig'.LastRefreshTime = olConfig.LastRefreshTime
    /\ olConfig'.ResourceCount = olConfig.ResourceCount

\* C40: the OpenList configuration is written only when every check passes
\* (storage type, authenticated user, owner or non-banned admin, action save,
\* URL / Username / Password present, a valid scan interval of 0 or at least 60
\* minutes, login succeeded), is otherwise left unchanged, and a write keeps
\* LastRefreshTime and ResourceCount.
C40_WrittenOnlyWhenAllChecksPass ==
  [][C40_Written =>
       /\ C40_GateChecksPass
       /\ (olConfig'.ScanInterval = 0 \/ olConfig'.ScanInterval >= 60)
       /\ C40_KeepsRefreshData]_vars

\* the same with the interval check the route makes (not strictly between 0
\* and 60)
C40_WrittenOnlyWhenRouteChecksPass ==
  [][C40_Written =>
       /\ C40_GateChecksPass
       /\ ~(olConfig'.ScanInterval > 0 /\ olConfig'.ScanInterval < 60)
       /\ olConfig' = NewOpenListConfig(olConfig, olReq.req)
       /\ C40_KeepsRefreshData]_vars

\* a non-banned admin replaced a stored configuration; refresh data kept
C40_WitnessAdminSave ==
  /\ olReq.stage = "done" /\ olReq.status = 200 /\ olReq.req.user = "admin1"
  /\ olConfig.URL = "http://ol" /\ olConfig.LastRefreshTime = 1000
  /\ olConfig.ResourceCount = 7 /\ olConfig.ScanInterval = 60
\* a banned admin with an otherwise good request is refused, nothing written
C40_WitnessBanned ==
  /\ olReq.stage = "done" /\ olReq.status = 401 /\ olReq.req.user = "banned1"
  /\ olReq.req.action = "save" /\ olReq.req.cred.URL # ""
  /\ olReq.req.cred.Username # "" /\ olReq.req.cred.Password # ""
  /\ olConfig = OldOpenList

\* a step in which handleSourceChange ends without finding the requested source
C39_FailedSourceChange ==
  /\ sourceChange # NoSourceChange /\ sourceChange' = NoSourceChange
  /\ sourceChange.target \notin AvailableSources

\* C39: a source change that fails because the requested source is not among
\* the available sources leaves persisted and session state unchanged: the
\* progress record and the skip configurations stay as they were, and the
\* active source, episode index and resume target keep their values.
C39_FailedSourceChangeChangesNothing ==
  [][C39_FailedSourceChange =>
       /\ playRecord' = playRecord /\ skipStore' = skipStore
       /\ detail' = detail /\ currentSourceRef' = currentSourceRef
       /\ currentEpisodeIndex' = currentEpisodeIndex
       /\ resumeTimeRef' = resumeTimeRef]_vars

\* the session half alone: source, index, resume target and address are kept,
\* and the error is reported
C39_FailedSourceChangeKeepsSession ==
  [][C39_FailedSourceChange =>
       /\ detail' = detail /\ currentSourceRef' = currentSourceRef
       /\ currentEpisodeIndex' = currentEpisodeIndex
       /\ resumeTimeRef' = resumeTimeRef /\ videoUrl' = videoUrl
       /\ error' = "notFound"]_vars

\* after a failed change the playing source has lost its record and its skip
\* configuration
C39_WitnessDeletedOnFailure ==
  /\ error = "notFound" /\ sourceChange = NoSourceChange
  /\ playRecord = NoRecord
  /\ skipStore[<<currentSourceRef, currentIdRef>>] = NoSkipConfig
  /\ skipConfigRef = StoredSkipConfig

\* the environment value reads as the number 0
C33_ConfiguredZero ==
  dmEnv.set /\ dmEnv.digits # <<>> /\ DigitsValue(dmEnv.digits) = 0
\* a step in which getDanmakuFromCache returns
C33_GetReturns == dmGet' # dmGet /\ dmGet'.stage = "done"
\* the entry of the episode asked for is missing or older than the expiry
C33_MissingOrExpired ==
  \/ dmStore[dmGet'.episodeId] = NoEntry
  \/ now - dmStore[dmGet'.episodeId].timestamp
       > GetDanmakuCacheExpireTime(dmWindow, dmEnv)

\* C33: the danmaku cache never serves stale or disabled data:
\* getDanmakuFromCache returns null whenever the entry is missing, older than
\* the configured expiry, or the expiry is configured as 0; saveDanmakuToCache
\* stores nothing when the expiry is 0; and a save that completed, followed by
\* a get of the same episode id within the expiry, returns the saved comments.
C33_CacheNeverStaleOrDisabled ==
  /\ [][(C33_GetReturns /\ (C33_MissingOrExpired \/ C33_ConfiguredZero))
          => ~dmGet'.result.served]_vars
  /\ [][C33_ConfiguredZero => dmStore' = dmStore]_vars
  /\ [][(dmSave.stage = "open" /\ dmSave'.stage = "stored")
          => dmStore' = [dmStore EXCEPT ![dmSave.episodeId] =
                           [comments |-> dmSave.comments, timestamp |-> now]]]_vars
  /\ [][(C33_GetReturns /\ dmGet'.outcome = "ok" /\ ~C33_MissingOrExpired)
          => /\ dmGet'.result.served
             /\ dmGet'.result.comments = dmStore[dmGet'.episodeId].comments]_vars

\* comments saved one minute ago are served under a one-minute expiry
C33_WitnessServedAtExpiry ==
  /\ dmGet.stage = "done" /\ dmGet.result.served
  /\ dmGet.result.comments = <<"c1", "c2">>
  /\ GetDanmakuCacheExpireTime(dmWindow, dmEnv) = MinuteMs
  /\ dmStore[dmGet.episodeId] # NoEntry
  /\ now - dmStore[dmGet.episodeId].timestamp = MinuteMs
\* an entry older than the default three days is not served
C33_WitnessExpired ==
  /\ dmGet.stage = "done" /\ dmGet.outcome = "ok" /\ ~dmGet.result.served
  /\ dmStore[dmGet.episodeId] # NoEntry /\ ~dmEnv.set
  /\ now - dmStore[dmGet.episodeId].timestamp > DefaultExpireMinutes * MinuteMs
\* with the expiry configured as 0 a save is skipped and a get returns null
C33_WitnessDisabled ==
  /\ C33_ConfiguredZero /\ dmWindow
  /\ dmSave.stage = "skipped" /\ dmGet.stage = "done" /\ ~dmGet.result.served

\* every request and release call has settled
C34_Settled == ~wlRequesting /\ ~wlReleasing

\* C34: once every pending wake-lock request and release has settled while
\* playback is paused, no wake lock is held, and at no time is more than one
\* unreleased sentinel outstanding.
C34_WakeLockFollowsPlayback ==
  /\ ((C34_Settled /\ paused) => wlHeld = {})
  /\ Cardinality(wlHeld) <= 1

\* the first half alone
C34_NoLockWhenSettledAndPaused == (C34_Settled /\ paused) => wlHeld = {}
\* the second half alone
C34_AtMostOneSentinel == Cardinality(wlHeld) <= 1

\* what the release does ensure: a sentinel still stored when a release call
\* has resumed is not one that call released
C34_StoredSentinelHeldOrReleasing ==
  (wakeLockRef # 0 /\ ~wlReleasing) => wakeLockRef \in wlHeld

\* a sentinel granted after the pause is held with nothing pending and
\* nothing stored to release it by
C34_WitnessHeldWhilePaused ==
  /\ paused /\ C34_Settled /\ wlHeld # {} /\ wakeLockRef \in wlHeld
\* two sentinels unreleased, only one of them stored
C34_WitnessTwoSentinels ==
  /\ Cardinality(wlHeld) = 2 /\ C34_Settled

\* C35: the can-play handler applies a resume target as a seek only while the
\* episode the target was recorded for is the active episode.
C35_ResumeSeekOnlyOnRecordedEpisode ==
  [][(CanPlay /\ seeksSinceSet' = seeksSinceSet + 1)
       => resumeFor = currentEpisodeIndex]_vars

\* a target that waits for can-play belongs to the selected episode
C35_PendingTargetOfActiveEpisode ==
  (resumeTimeRef # Null /\ resumeTimeRef > 0) => resumeFor = currentEpisodeIndex

\* the record half as the code has it: a record whose episode is in range
\* selects that episode, so its target is applied there
C35_InRangeRecordSelectsEpisode ==
  [][\A o \in LoadOutcomes :
       (LoadPlayRecords(o) /\ o.kind = "found" /\ o.index - 1 < episodesLen)
         => (currentEpisodeIndex' = o.index - 1 /\ resumeFor' = currentEpisodeIndex')]_vars

\* a step that hands a record to savePlayRecord
C36_RecordWritten == playRecord' # playRecord /\ playRecord' # NoRecord
\* the effects of the last commit have run: the refs mirror the state and
\* updateVideoUrl has set the address of the selected episode
C36_EffectsFlushed ==
  /\ currentEpisodeIndexRef = currentEpisodeIndex /\ currentSourceRef = detail
  /\ videoUrl = UpdateVideoUrl(detail, currentEpisodeIndex)

\* C36: every persisted progress record is self-consistent: the source and
\* episode index it is stored under name the episode whose stream the play
\* position and duration were read from.
C36_RecordRefersToOneEpisode ==
  [][C36_RecordWritten
       => playerUrl = UpdateVideoUrl(currentSourceRef, currentEpisodeIndexRef)]_vars

\* the same for the flushes that come after the effects of a commit have run
C36_RecordRefersToOneEpisodeAfterEffects ==
  [][(C36_RecordWritten /\ C36_EffectsFlushed)
       => playerUrl = UpdateVideoUrl(currentSourceRef, currentEpisodeIndexRef)]_vars

\* the record always carries the index held by the ref, the position and the
\* duration of the stored player
C36_RecordFromRefAndPlayer ==
  [][C36_RecordWritten
       => playRecord' = SavedRecord(currentEpisodeIndexRef, currentTime, duration)]_vars

\* once the player has been given the address of the selected episode a flush
\* is consistent
C36_WitnessConsistentAfterSwitch ==
  /\ playRecord = SavedRecord(1, 30, 1200) /\ lastTrigger = "timeupdate"
  /\ playerUrl = "alt2.m3u8" /\ currentEpisodeIndexRef = 1 /\ detail = "siteB"

\* a step in which the outro check of the skip listener moves the index
C37_SkipAdvances ==
  lastSkipCheckRef' # lastSkipCheckRef /\ currentEpisodeIndex' # currentEpisodeIndex
\* a step in which the timer t of an ended event moves the index
C37_TimerAdvances(t) ==
  /\ t \in endedTimers /\ endedTimers' = endedTimers \ {t}
  /\ currentEpisodeIndex' # currentEpisodeIndex

\* C37: one crossing of the outro threshold, and likewise one ended event,
\* advances the episode index by exactly one: the index an automatic advance
\* installs is the one that follows the episode whose stream reached its end,
\* whatever the outgoing stream still delivers and whatever the user selects in
\* between.
C37_AdvanceOncePerEpisodeEnd ==
  [][/\ (C37_SkipAdvances
          => playerUrl = UpdateVideoUrl(detail, currentEpisodeIndex' - 1))
     /\ \A t \in endedTimers :
          (C37_TimerAdvances(t)
             => t.stream = UpdateVideoUrl(detail, currentEpisodeIndex' - 1))]_vars

\* the ended half alone
C37_EndedAdvancesOnce ==
  [][\A t \in endedTimers :
       (C37_TimerAdvances(t)
          => t.stream = UpdateVideoUrl(detail, currentEpisodeIndex' - 1))]_vars

\* while the attached stream is the one of the episode the reference names, an
\* outro advance is exactly one past the attached episode
C37_AdvanceOnceWhileStreamInStep ==
  [][(C37_SkipAdvances /\ playerUrl = UpdateVideoUrl(detail, currentEpisodeIndexRef))
       => playerUrl = UpdateVideoUrl(detail, currentEpisodeIndex' - 1)]_vars

\* the first episode's stream is still attached and the index is two ahead
C37_WitnessAdvancedTwice ==
  /\ playerUrl = "s1.m3u8" /\ currentEpisodeIndex = 2 /\ currentEpisodeIndexRef = 1
  /\ endedTimers = {} /\ skipConfigRef.enable

\* all comment loads have settled and the episode-change effect has run for
\* the selected episode, which has a comment episode bound to it
C38_Settled ==
  /\ danmakuLoads = {}
  /\ danmakuEffectIndex = currentEpisodeIndex
  /\ currentDanmakuSelection # Null
  /\ currentEpisodeIndex < Len(DanmakuEpisodesList)

\* C38: after an episode change with an established comment-source binding,
\* once all outstanding comment loads have settled the comment track shown by
\* the player is the one of the currently selected episode (or no comments at
\* all, when its load brought none): a slower load started for an earlier
\* episode never overwrites the track of a later-selected episode.
C38_SettledTrackIsOfSelectedEpisode ==
  C38_Settled => danmakuTrack \in {0, DanmakuEpisodesList[currentEpisodeIndex + 1]}

\* the binding itself follows the episode: once the effect has run the
\* selection names the comment episode of the selected episode
C38_SelectionFollowsEpisode ==
  (danmakuEffectIndex = currentEpisodeIndex /\ currentDanmakuSelection # Null
     /\ currentEpisodeIndex < Len(DanmakuEpisodesList))
    => currentDanmakuSelection = DanmakuEpisodesList[currentEpisodeIndex + 1]

\* a settling load writes the track of its own episode, whatever is selected
C38_SettlingLoadWritesItsEpisode ==
  [][\A l \in danmakuLoads :
       (danmakuLoads' = danmakuLoads \ {l} /\ danmakuTrack' # danmakuTrack)
         => danmakuTrack' = l.episodeId]_vars

\* everything has settled, the third episode is selected and bound, and the
\* player shows the comments of the second
C38_WitnessStaleTrack ==
  /\ C38_Settled /\ currentEpisodeIndex = 2
  /\ currentDanmakuSelection = DanmakuEpisodesList[3]
  /\ danmakuTrack = DanmakuEpisodesList[2]
====
